---- MODULE Spec2Model ----
(***************************************************************************)
(* Grid-clash synchronisation protocol: the client's and the server's      *)
(* Selective-Repeat ARQ engines (src/client.py, src/server.py) and the     *)
(* server's session / grid state machine (src/server.py).                  *)
(*                                                                         *)
(* Each handler of the source is one operator over a record of the         *)
(* object's fields (the handler's sequential code, calls included), and    *)
(* one action that applies it to the variables.                            *)
(***************************************************************************)
EXTENDS Integers, Sequences, FiniteSets, TLC

\* ------------------------------------------------------------------------
\* Program constants
\* ------------------------------------------------------------------------
MSG_TYPE_JOIN_REQ == 0
MSG_TYPE_JOIN_RESP == 1
MSG_TYPE_CLAIM_REQ == 2
MSG_TYPE_BOARD_SNAPSHOT == 3
MSG_TYPE_GAME_OVER == 4
MSG_TYPE_LEAVE == 5
MSG_TYPE_GAME_START == 6
MSG_TYPE_ACK == 8
MSG_TYPE_LEADERBOARD == 9

\* GameClient.N: the client's send window size
N == 6

\* ------------------------------------------------------------------------
\* Bounds of the model
\* ------------------------------------------------------------------------
\* the client accepts no further send once nextSeqNum has reached this value
MaxClientSeq == 7
\* acknowledgment numbers the network hands to the client: 0..MaxAckNum
MaxAckNum == 7
\* sequence numbers of the server packets that reach the client: 0..MaxRecvSeq
MaxRecvSeq == 4
\* the client sends this many packets where its retransmissions are followed
MaxRetxSeq == 3
\* the server numbers at most this many packets per player where the client
\* receives them
MaxLinkSeq == 3
\* the server numbers at most this many packets per player where the
\* snapshots sent are followed
MaxSnapSeq == 5
\* the sequence and acknowledgment numbers of the datagrams received go up to
\* this
MaxWireNum == 1
\* the data packets whose acknowledgment is followed carry the sequence
\* numbers 0..MaxRxSeq
MaxRxSeq == 1
\* an endpoint sends the claims with the sequence numbers 1..MaxDupSeq where
\* retransmitted claims are followed
MaxDupSeq == 2
\* and this many endpoints send them
NumDupAddrs == 2
\* the claims carry the timestamps 1..MaxMatchTs where the end of a match
\* is followed
MaxMatchTs == 3
\* the server's packets carry the sequence numbers 0..MaxBufSeq where the
\* size of the client's receive buffer is followed
MaxBufSeq == 7
\* packets 0..MaxPaySeq of the server arrive with payloads of the sizes
\* PayloadSizes
MaxPaySeq == 2
\* the client sends the packets 0..MaxTimerSeq - 1 where its timer thread is
\* followed
MaxTimerSeq == 3
\* connect() creates at most this many sockets
MaxSockets == 2

\* ------------------------------------------------------------------------
\* Dictionaries
\* ------------------------------------------------------------------------
EmptyMap == [x \in {} |-> 0]

Put(f, k, v) == [x \in (DOMAIN f) \cup {k} |-> IF x = k THEN v ELSE f[x]]

Remove(f, k) == [x \in (DOMAIN f) \ {k} |-> f[x]]

\* F(x), with x evaluated a single time however often F uses it
Once(x, F(_)) == CHOOSE r \in {F(v) : v \in {x}} : TRUE

VARIABLES
    \* ---- GameClient, sender side
    base,              \* self.base
    nextSeqNum,        \* self.nextSeqNum
    window,            \* self.window: seq -> packet
    timers,            \* keys of self.timers
    send_timestamp,    \* keys of self.send_timestamp
    retransmitted_seqs,\* self._retransmitted_seqs
    rtt_sampled,       \* sequence numbers whose ACK updated estimatedRTT/devRTT/RTO
    send_result,       \* what the last _sr_send returned: "none", "sent", "dropped"
    \* ---- GameClient, receiver side
    receive_buffer,    \* self.receive_buffer: seq -> packet
    expected_seq,      \* self.expected_seq
    last_ack_num,      \* self.last_ack_num (-1: attribute not set yet)
    processed,         \* the sequence numbers handed to _process_packet, in order
    \* ---- GameClient, socket
    client_socket,     \* self.client_socket: 0 for None, else the address (the
                       \* ephemeral port) of the socket that connect() created
    sockets,           \* how many sockets connect() has created so far
    to_server,         \* the datagrams the client has sent
    handed,            \* <<address, seq>>: the packet seq, received on the socket
                       \* with that address, was handed to _process_packet
    timer_loop,        \* the thread that connect() started last on _timer_loop:
                       \* pc is "none" (no thread yet), "while" (at the loop
                       \* condition), "for" (inside the for loop, keys are the
                       \* sequence numbers still to visit) or "dead" (ended by an
                       \* exception)
    \* ---- both receivers
    codec,             \* the byte string last handed to parse_packet, how it was
                       \* made and what parse_packet returned: a record of the
                       \* past, read by no handler
    discarded          \* <<receiver, cause>>: the receiver ("server", "client")
                       \* has received a datagram that was too short ("short")
                       \* or whose checksum did not match ("checksum")

clientState == <<base, nextSeqNum, window, timers, send_timestamp, retransmitted_seqs,
                 rtt_sampled, send_result, receive_buffer, expected_seq, last_ack_num,
                 processed, client_socket, sockets, to_server, handed, timer_loop>>

clientVars == <<clientState, discarded, codec>>

\* the fields of a header that parse_packet did not return
NoHeader ==
    [protocol_id |-> <<>>, version |-> 0, msg_type |-> 0, length |-> 0,
     snapshot_id |-> 0, seq_num |-> 0, ack_num |-> 0, timestamp |-> 0,
     received_checksum |-> 0]

\* nothing has been handed to parse_packet
NoCodec ==
    [kind |-> "none", sent |-> NoHeader, payload |-> <<>>, data |-> <<>>,
     result |-> [raised |-> FALSE, none |-> TRUE, header |-> NoHeader,
                 payload |-> <<>>, valid |-> FALSE]]

\* The client object as one record, and the record written back.
Client ==
    [base |-> base, nextSeqNum |-> nextSeqNum, window |-> window, timers |-> timers,
     send_timestamp |-> send_timestamp, retransmitted_seqs |-> retransmitted_seqs,
     rtt_sampled |-> rtt_sampled, send_result |-> send_result,
     receive_buffer |-> receive_buffer, expected_seq |-> expected_seq,
     last_ack_num |-> last_ack_num, processed |-> processed,
     client_socket |-> client_socket, sockets |-> sockets, to_server |-> to_server,
     handed |-> handed, timer_loop |-> timer_loop]

SetClientState(c) ==
    /\ base' = c.base
    /\ nextSeqNum' = c.nextSeqNum
    /\ window' = c.window
    /\ timers' = c.timers
    /\ send_timestamp' = c.send_timestamp
    /\ retransmitted_seqs' = c.retransmitted_seqs
    /\ rtt_sampled' = c.rtt_sampled
    /\ send_result' = c.send_result
    /\ receive_buffer' = c.receive_buffer
    /\ expected_seq' = c.expected_seq
    /\ last_ack_num' = c.last_ack_num
    /\ processed' = c.processed
    /\ client_socket' = c.client_socket
    /\ sockets' = c.sockets
    /\ to_server' = c.to_server
    /\ handed' = c.handed
    /\ timer_loop' = c.timer_loop

\* the record written back by a step that receives no invalid datagram
SetClient(c) == SetClientState(c) /\ discarded' = discarded /\ codec' = codec

ClientInit ==
    /\ base = 0
    /\ nextSeqNum = 0
    /\ window = EmptyMap
    /\ timers = {}
    /\ send_timestamp = {}
    /\ retransmitted_seqs = {}
    /\ rtt_sampled = {}
    /\ send_result = "none"
    /\ receive_buffer = EmptyMap
    /\ expected_seq = 0
    /\ last_ack_num = -1
    /\ processed = <<>>
    /\ client_socket = 0
    /\ sockets = 0
    /\ to_server = {}
    /\ handed = {}
    /\ timer_loop = [pc |-> "none", keys |-> {}]
    /\ discarded = {}
    /\ codec = NoCodec

\* ------------------------------------------------------------------------
\* protocol.py: the header and its checksum
\* ------------------------------------------------------------------------
HEADER_SIZE == 28
VERSION == 1
\* PROTOCOL_ID = b'GSSP' as two 16-bit words
PROTOCOL_ID == <<71 * 256 + 83, 83 * 256 + 80>>

\* struct.pack(HEADER_FORMAT, ...) of a packet without payload (length 0) as
\* 16-bit words, "!4s B B H H I I Q H": protocol id, version and type, length,
\* snapshot id, seq_num, ack_num, timestamp (taken as 0), checksum
HeaderWords(msg_type, seq_num, ack_num, checksum) ==
    PROTOCOL_ID \o <<VERSION * 256 + msg_type, 0, 0,
                     seq_num \div 65536, seq_num % 65536,
                     ack_num \div 65536, ack_num % 65536,
                     0, 0, 0, 0, checksum>>

RECURSIVE SumWords(_)
SumWords(words) == IF words = <<>> THEN 0 ELSE Head(words) + SumWords(Tail(words))

\* compute_checksum: the sum of the 16-bit words, the carries folded in twice,
\* complemented
compute_checksum(words) ==
    LET s == SumWords(words)
        folded == (s \div 65536) + (s % 65536)
        twice == folded + (folded \div 65536)
    IN  65535 - (twice % 65536)

\* a datagram: size bytes of the header of a packet with these fields
\* (size < HEADER_SIZE: the datagram was truncated)
WireDatagram(size, msg_type, seq_num, ack_num, checksum) ==
    [size |-> size, msg_type |-> msg_type, seq_num |-> seq_num,
     ack_num |-> ack_num, checksum |-> checksum]

\* create_packet with an empty payload
create_packet(msg_type, seq_num, ack_num) ==
    WireDatagram(HEADER_SIZE, msg_type, seq_num, ack_num,
                 compute_checksum(HeaderWords(msg_type, seq_num, ack_num, 0)))

\* parse_packet taking every checksum for good
ParseWithoutChecksum(data) ==
    [header |-> data.size >= HEADER_SIZE, valid |-> TRUE]

\* parse_packet: header is FALSE for None
parse_packet(data) ==
    IF data.size < HEADER_SIZE
    THEN [header |-> FALSE, valid |-> FALSE]
    ELSE [header |-> TRUE,
          valid |-> data.checksum =
                        compute_checksum(HeaderWords(data.msg_type, data.seq_num,
                                                     data.ack_num, 0))]

\* what is wrong with a datagram, by what create_packet would have sent
Cause(data) ==
    IF data.size < HEADER_SIZE THEN "short"
    ELSE IF data # create_packet(data.msg_type, data.seq_num, data.ack_num)
    THEN "checksum"
    ELSE "none"

\* ------------------------------------------------------------------------
\* GameClient: SR ARQ sender
\* ------------------------------------------------------------------------
Packet(msg_type, seq_num, ack_num) ==
    [msg_type |-> msg_type, seq_num |-> seq_num, ack_num |-> ack_num]

\* a datagram of the client on the network: the packet and the address of
\* the socket it was sent from
Datagram(c, pkt) == [addr |-> c.client_socket, pkt |-> pkt]

\* GameClient._sr_send. Without a socket sendto raises (AttributeError on
\* None), which is caught: the packet is dropped.
ClientSrSend(c, msg_type) ==
    IF c.nextSeqNum < c.base + N
    THEN IF c.client_socket = 0
         THEN [c EXCEPT !.send_result = "dropped"]
         ELSE LET seq == c.nextSeqNum
                  packet == Packet(msg_type, seq, 0)
              IN  [c EXCEPT !.to_server = @ \cup {Datagram(c, packet)},
                            !.window = Put(@, seq, packet),
                            !.timers = @ \cup {seq},
                            !.send_timestamp = @ \cup {seq},
                            !.nextSeqNum = @ + 1,
                            !.send_result = "sent"]
    ELSE [c EXCEPT !.send_result = "dropped"]

\* GameClient._retransmit
ClientRetransmit(c, seq) ==
    IF seq \in DOMAIN c.window /\ c.client_socket # 0
    THEN [c EXCEPT !.to_server = @ \cup {Datagram(c, c.window[seq])},
                   !.timers = @ \cup {seq},
                   !.retransmitted_seqs = @ \cup {seq}]
    ELSE c

\* _timer_loop at "while self.running" (running is true from connect() to
\* disconnect(), as long as the socket is there): the thread returns, or
\* enters the for loop over list(self.timers.keys())
TimerLoopWhile(c) ==
    IF c.client_socket = 0
    THEN [c EXCEPT !.timer_loop = [pc |-> "none", keys |-> {}]]
    ELSE [c EXCEPT !.timer_loop = [pc |-> "for", keys |-> c.timers]]

\* one iteration of the for loop of _timer_loop on seq, the next key of the
\* list: self.timers[seq] is read, a KeyError when the key is gone ends the
\* thread; is_due says whether RTO has passed for seq, and then _retransmit
\* runs. After the last key the thread sleeps and is back at the condition.
TimerLoopFor(c, is_due) ==
    LET seq == CHOOSE k \in c.timer_loop.keys : \A j \in c.timer_loop.keys : k <= j
        rest == c.timer_loop.keys \ {seq}
        c1 == IF is_due THEN ClientRetransmit(c, seq) ELSE c
    IN  IF seq \notin c.timers
        THEN [c EXCEPT !.timer_loop = [pc |-> "dead", keys |-> {}]]
        ELSE [c1 EXCEPT !.timer_loop =
                            IF rest = {} THEN [pc |-> "while", keys |-> {}]
                            ELSE [pc |-> "for", keys |-> rest]]

\* GameClient.connect: a new socket, the threads, and the JOIN_REQUEST
ClientConnect(c) ==
    IF c.client_socket # 0 THEN c
    ELSE ClientSrSend([c EXCEPT !.client_socket = c.sockets + 1,
                                !.sockets = @ + 1,
                                !.timer_loop = [pc |-> "while", keys |-> {}]],
                      MSG_TYPE_JOIN_REQ)

\* GameClient.disconnect, when the acknowledgment of the LEAVE does not come
\* within leave_timeout_ms: the LEAVE is sent, the loops are stopped, the
\* socket is closed, and the window, the timers and the send timestamps are
\* cleared (base, nextSeqNum, expected_seq and receive_buffer stay)
ClientDisconnect(c) ==
    IF c.client_socket = 0 THEN c
    ELSE [ClientSrSend(c, MSG_TYPE_LEAVE) EXCEPT
             !.client_socket = 0,
             !.window = EmptyMap,
             !.timers = {},
             !.send_timestamp = {}]

\* first sliding loop of _handle_ack: while self.base in self.window
RECURSIVE SlideWhileInWindow(_, _)
SlideWhileInWindow(b, w) ==
    IF b \in DOMAIN w THEN SlideWhileInWindow(b + 1, w) ELSE b

\* second sliding loop of _handle_ack:
\* while self.base not in self.window and self.base < self.nextSeqNum
RECURSIVE SlideWhileAbsent(_, _, _)
SlideWhileAbsent(b, w, nxt) ==
    IF b \notin DOMAIN w /\ b < nxt THEN SlideWhileAbsent(b + 1, w, nxt) ELSE b

\* GameClient._handle_ack
ClientHandleAck(c, seq) ==
    LET c1 == IF seq \in DOMAIN c.window
              THEN [c EXCEPT !.rtt_sampled =
                                 IF seq \in c.send_timestamp THEN @ \cup {seq} ELSE @,
                             !.window = Remove(@, seq),
                             !.timers = @ \ {seq},
                             !.send_timestamp = @ \ {seq}]
              ELSE c
        b1 == SlideWhileInWindow(c1.base, c1.window)
        b2 == SlideWhileAbsent(b1, c1.window, c1.nextSeqNum)
    IN  [c1 EXCEPT !.base = b2]

\* ------------------------------------------------------------------------
\* GameClient: SR ARQ receiver
\* ------------------------------------------------------------------------
\* GameClient._process_packet, as far as the ARQ layer sees it: the packet is
\* handed to the application
ProcessPacket(c, pkt) ==
    [c EXCEPT !.processed = Append(@, pkt.seq_num),
              !.handed = @ \cup {<<c.client_socket, pkt.seq_num>>}]

\* the payload bytes unpack_grid_snapshot reads: 20 rows of 10 bytes
GridBytes == 200

\* _process_packet raises on a payload that does not fit the message type: a
\* JOIN_RESPONSE is unpacked with struct.unpack("!B", payload), which wants
\* exactly one byte; a BOARD_SNAPSHOT drops the 4 bytes of the snapshot id
\* when it has them and indexes the first GridBytes bytes of the rest, the
\* IndexError is caught and the name players_in_grid is then read unbound.
\* A packet without the field payload_size carries a payload of the right
\* size.
PayloadRaises(pkt) ==
    /\ "payload_size" \in DOMAIN pkt
    /\ \/ /\ pkt.msg_type = MSG_TYPE_JOIN_RESP
          /\ pkt.payload_size # 1
       \/ /\ pkt.msg_type = MSG_TYPE_BOARD_SNAPSHOT
          /\ (IF pkt.payload_size >= 4 THEN pkt.payload_size - 4
                                       ELSE pkt.payload_size) < GridBytes

\* the draining loop of _handle_data_packet
RECURSIVE DrainBuffer(_)
DrainBuffer(c) ==
    IF c.expected_seq \in DOMAIN c.receive_buffer
    THEN LET pkt == c.receive_buffer[c.expected_seq]
             c1 == [c EXCEPT !.receive_buffer = Remove(@, c.expected_seq)]
             c2 == ProcessPacket(c1, pkt)
         IN  IF PayloadRaises(pkt) THEN c1
             ELSE DrainBuffer([c2 EXCEPT !.expected_seq = @ + 1])
    ELSE c

\* a receiver that hands every packet at or beyond expected_seq to the
\* application at once (a faulty variant of _handle_data_packet)
ClientHandleDataPacketEager(c, pkt) ==
    LET c0 == [c EXCEPT !.last_ack_num = pkt.seq_num] IN
    IF pkt.seq_num >= c0.expected_seq
    THEN LET c1 == ProcessPacket(c0, pkt)
         IN  DrainBuffer([c1 EXCEPT !.expected_seq = @ + 1])
    ELSE c0

\* GameClient._handle_data_packet
ClientHandleDataPacket(c, pkt) ==
    LET c0 == [c EXCEPT !.last_ack_num = pkt.seq_num] IN
    IF pkt.seq_num = c0.expected_seq
    THEN LET c1 == ProcessPacket(c0, pkt)
         IN  IF PayloadRaises(pkt) THEN c0
             ELSE DrainBuffer([c1 EXCEPT !.expected_seq = @ + 1])
    ELSE IF pkt.seq_num > c0.expected_seq
    THEN [c0 EXCEPT !.receive_buffer = Put(@, pkt.seq_num, pkt)]
    ELSE c0

\* one iteration of GameClient._receive_loop on a checksum-valid packet: an
\* ACK is handled; any other packet is acknowledged (create_ack_packet(seq),
\* in the loop and once more in _handle_data_packet) and handled as data
ClientReceive(c, pkt) ==
    IF pkt.msg_type = MSG_TYPE_ACK
    THEN ClientHandleAck(c, pkt.ack_num)
    ELSE LET c1 == IF pkt.msg_type = MSG_TYPE_JOIN_RESP
                   THEN ClientHandleAck(c, pkt.ack_num)
                   ELSE c
             c2 == [c1 EXCEPT !.to_server =
                        @ \cup {Datagram(c1, Packet(MSG_TYPE_ACK, 0, pkt.seq_num))}]
         IN  ClientHandleDataPacket(c2, pkt)

\* one iteration of GameClient._receive_loop on a datagram
ClientReceiveDatagram(c, data) ==
    IF data.size < HEADER_SIZE THEN c
    ELSE Once(parse_packet(data), LAMBDA parsed :
             IF ~parsed.header THEN c
             ELSE IF ~parsed.valid THEN c
             ELSE ClientReceive(c, Packet(data.msg_type, data.seq_num, data.ack_num)))

\* ========================================================================
\* GameServer
\* ========================================================================
\* GameServer.N: the server's send window size per player
SrvN == 6
\* the grid is 20 x 20
GridDim == 20
\* self.min_players
min_players == 2
\* a late joiner is moved into a running game while len(self.clients) < 4
MaxActive == 4

\* ---- bounds
\* endpoints that send datagrams to the server in Spec: 1..NumAddrs
NumAddrs == 2
\* claim timestamps (header field timestamp): 1..MaxTs
MaxTs == 2
\* no handler runs that would take a player's next sequence number beyond this
MaxSeq == 9
\* acknowledgment numbers of the ACK packets sent to the server: 0..MaxSrvAck
MaxSrvAck == 1
\* acknowledgment numbers piggybacked on CLAIM_REQUESTs: 0..MaxClaimAck
MaxClaimAck == 0
\* no snapshot is broadcast once snapshot_id has reached this value (two more
\* in the specification of the waiting room, which takes four joins to fill)
MaxSnapshot == 4
\* scheduled _reset_for_new_game callbacks that may be pending at once
MaxResets == 1

Addrs == 1..NumAddrs
\* the endpoint of the specifications of one link
OneAddr == {1}
\* endpoints of the specification in which the waiting room fills
CrowdAddrs == 1..(MaxActive + 1)

InRange(r, c) == 0 <= r /\ r < GridDim /\ 0 <= c /\ c < GridDim

\* (row, column) pairs carried by the CLAIM_REQUESTs of the model
ClaimCoords == {<<0, 0>>, <<19, 19>>, <<20, 0>>, <<0, 20>>}
\* the only pair claimed in the specifications with a reduced input set
OneCoord == {<<0, 0>>}

\* The cells of the 20 x 20 grid that a CLAIM_REQUEST of the model can name.
\* Every other cell stays unclaimed with timestamp 0 in every reachable state,
\* so the two matrices are kept on these cells only.
Cells == {rc \in ClaimCoords : InRange(rc[1], rc[2])}

EmptyGrid == [cell \in Cells |-> 0]

VARIABLES
    running,               \* self.running
    clients,               \* self.clients: player_id -> addr
    waiting_room_players,  \* self.waiting_room_players: player_id -> addr
    client_windows,        \* self.client_windows: player_id -> (seq -> packet)
    client_timers,         \* keys of self.client_timers: player_id -> set of seq
    client_next_seq,       \* self.client_next_seq
    client_base,           \* self.client_base
    grid_state,            \* self.grid_state
    grid_claim_time,       \* self.grid_claim_time
    game_active,           \* self.game_active
    grid_changed,          \* self.grid_changed
    should_send_snapshots, \* self._should_send_snapshots
    game_start_time,       \* self.game_start_time: "None", "running", "expired"
    snapshot_id,           \* self.snapshot_id
    final_scores,          \* self.final_scores
    reset_pending,         \* _reset_for_new_game callbacks scheduled with root.after
    loop_pc,               \* position of _server_loop in its iteration
    timer_thread,          \* _game_timer_thread: "started", "dead", or "ending" while
                           \* it sleeps inside _end_game_with_scores
    timeout_thread,        \* _player_timeout_thread: "started" or "dead"
    end_calls,             \* player_id -> the message types that the step just taken,
                           \* if it ended the match, passed to _sr_send in order
    handled,               \* the claims handled on ProbeCell since it was last cleared
    applied,               \* the <<addr, seq_num>> of the CLAIM_REQUESTs that changed
                           \* the grid: a record of the past, read by no handler
    due,                   \* the <<player_id, seq>> whose client_timers entry is RTO
                           \* or more in the past
    resent,                \* the <<player_id, seq, packet>> that _retransmit has sent
                           \* again while seq has been in the player's window
    to_client              \* the datagrams the server has sent

serverVars == <<running, clients, waiting_room_players, client_windows, client_timers,
                client_next_seq, client_base, grid_state, grid_claim_time, game_active,
                grid_changed, should_send_snapshots, game_start_time, snapshot_id,
                final_scores, reset_pending, loop_pc, timer_thread, timeout_thread,
                end_calls, handled, applied, due, resent, to_client>>

\* what only _sr_send, _retransmit and the passing of time change
arqVars == <<due, resent, to_client>>

vars == <<clientVars, serverVars>>

\* The server object as one record. ok: the value the last _sr_send returned;
\* raised: an exception is propagating; late: whether, while the handler runs,
\* the oldest packet of a full window was last transmitted more than 3 * RTO ago;
\* detail: whether the windows keep the header fields of the packets; wire:
\* whether the datagrams sent are kept in out, out: the datagrams sent by
\* the handler that runs; seq: header['seq_num'] of the packet being handled;
\* acklog: whether the ACK packets sent with sendto are kept in out and the
\* claims applied in done; done: the <<addr, seq_num>> of the claims that the
\* handler that runs has applied.
Server(late) ==
    [running |-> running, clients |-> clients,
     waiting_room_players |-> waiting_room_players,
     client_windows |-> client_windows, client_timers |-> client_timers,
     client_next_seq |-> client_next_seq, client_base |-> client_base,
     grid_state |-> grid_state, grid_claim_time |-> grid_claim_time,
     game_active |-> game_active, grid_changed |-> grid_changed,
     should_send_snapshots |-> should_send_snapshots,
     game_start_time |-> game_start_time, snapshot_id |-> snapshot_id,
     final_scores |-> final_scores, reset_pending |-> reset_pending,
     due |-> due, resent |-> resent, detail |-> FALSE, wire |-> FALSE, out |-> {},
     seq |-> 0, acklog |-> FALSE, done |-> {},
     end_calls |-> EmptyMap, late |-> late, ok |-> FALSE, raised |-> FALSE]

\* the server object as the actions of a specification with inputs sc see it
ServerOf(sc, late) ==
    [Server(late) EXCEPT !.detail = sc.detail, !.wire = sc.wire, !.acklog = sc.acklog]

\* the same while it handles a packet whose header carries seq_num
ServerRx(sc, late, seq_num) == [ServerOf(sc, late) EXCEPT !.seq = seq_num]

\* the <<player_id, seq>> that have a timer in s
TimerKeys(s) ==
    {k \in (DOMAIN s.client_timers) \X (0..MaxSeq) : k[2] \in s.client_timers[k[1]]}

\* the cell whose claims are recorded
ProbeCell == <<0, 0>>

\* the claims <<player, timestamp>> handled on ProbeCell since it was last
\* cleared: a record of the past, read by no handler
HandledAfter(s, news) ==
    IF s.grid_claim_time[ProbeCell] = 0 THEN {}
    ELSE handled \cup {n[2] : n \in {m \in news : m[1] = ProbeCell}}

SetServer(s, news) ==
    \E v \in {s} :
        /\ running' = v.running
        /\ clients' = v.clients
        /\ waiting_room_players' = v.waiting_room_players
        /\ client_windows' = v.client_windows
        /\ client_timers' = v.client_timers
        /\ client_next_seq' = v.client_next_seq
        /\ client_base' = v.client_base
        /\ grid_state' = v.grid_state
        /\ grid_claim_time' = v.grid_claim_time
        /\ game_active' = v.game_active
        /\ grid_changed' = v.grid_changed
        /\ should_send_snapshots' = v.should_send_snapshots
        /\ game_start_time' = v.game_start_time
        /\ snapshot_id' = v.snapshot_id
        /\ final_scores' = v.final_scores
        /\ reset_pending' = v.reset_pending
        /\ end_calls' = v.end_calls
        /\ handled' = HandledAfter(v, news)
        /\ applied' = applied \cup v.done
        /\ due' = v.due \cap TimerKeys(v)
        /\ resent' = {r \in v.resent : <<r[1], r[2]>> \in TimerKeys(v)}
        /\ to_client' = to_client \cup v.out

\* the caps of the model on the counters of the server
Bounded(sc, s) ==
    /\ \A p \in DOMAIN s.client_next_seq : s.client_next_seq[p] <= sc.seqs
    /\ s.snapshot_id <= sc.snapshots
    /\ s.reset_pending <= MaxResets

\* the caps on what a message handler leaves behind: sc.room below the caps,
\* the room that the rest of the loop iteration (one snapshot to every player)
\* needs to run under the caps
HandlerBounded(sc, s) ==
    /\ Bounded(sc, s)
    /\ \A p \in DOMAIN s.client_next_seq : s.client_next_seq[p] <= sc.seqs - sc.room
    /\ s.snapshot_id <= sc.snapshots - sc.room

\* GameServer.__init__
ServerInit ==
    /\ running = FALSE
    /\ clients = EmptyMap
    /\ waiting_room_players = EmptyMap
    /\ client_windows = EmptyMap
    /\ client_timers = EmptyMap
    /\ client_next_seq = EmptyMap
    /\ client_base = EmptyMap
    /\ grid_state = EmptyGrid
    /\ grid_claim_time = EmptyGrid
    /\ game_active = FALSE
    /\ grid_changed = FALSE
    /\ should_send_snapshots = FALSE
    /\ game_start_time = "None"
    /\ snapshot_id = 0
    /\ final_scores = <<>>
    /\ reset_pending = 0
    /\ loop_pc = "recv"
    /\ timer_thread = "started"
    /\ timeout_thread = "started"
    /\ end_calls = EmptyMap
    /\ handled = {}
    /\ applied = {}
    /\ due = {}
    /\ resent = {}
    /\ to_client = {}

\* ------------------------------------------------------------------------
\* GameServer: SR ARQ sender
\* ------------------------------------------------------------------------
Min(S) == CHOOSE x \in S : \A y \in S : x <= y

Known(s, player_id) ==
    player_id \in DOMAIN s.clients \/ player_id \in DOMAIN s.waiting_room_players

\* The packet create_packet builds: the header fields that differ between the
\* packets of the server (BOARD_SNAPSHOTs alone carry self.snapshot_id). No
\* handler reads a stored packet back except to send it again, so where
\* s.detail is off the window keeps one token for it.
SrvPacket(s, msg_type, seq_num) ==
    IF s.detail
    THEN [msg_type |-> msg_type, seq_num |-> seq_num,
          snapshot_id |-> IF msg_type = MSG_TYPE_BOARD_SNAPSHOT
                          THEN s.snapshot_id ELSE 0,
          grid |-> IF msg_type = MSG_TYPE_BOARD_SNAPSHOT
                   THEN s.grid_state ELSE EmptyGrid]
    ELSE "packet"

\* _sr_send: "Initialize structures if needed"
InitStructures(s, player_id) ==
    IF player_id \notin DOMAIN s.client_next_seq
    THEN [s EXCEPT !.client_next_seq = Put(@, player_id, 0),
                   !.client_base = Put(@, player_id, 0),
                   !.client_windows = Put(@, player_id, EmptyMap),
                   !.client_timers = Put(@, player_id, {})]
    ELSE s

\* a force slide that advances the base and leaves the oldest packet in the
\* window (a faulty variant of the force-slide branch)
ForceSlideKeepsPacket(s, player_id) ==
    LET w == s.client_windows[player_id]
        oldest_seq == IF DOMAIN w # {} THEN Min(DOMAIN w) ELSE s.client_base[player_id]
    IN  [s EXCEPT !.client_base = Put(@, player_id, oldest_seq + 1)]

\* _sr_send: the force-slide branch drops the oldest packet of a full window
ForceSlide(s, player_id) ==
    LET w == s.client_windows[player_id]
        oldest_seq == IF DOMAIN w # {} THEN Min(DOMAIN w) ELSE s.client_base[player_id]
    IN  [s EXCEPT !.client_base = Put(@, player_id, oldest_seq + 1),
                  !.client_windows = Put(@, player_id, Remove(w, oldest_seq)),
                  !.client_timers = Put(@, player_id, @[player_id] \ {oldest_seq})]

\* _sr_send: current_time_ms() - oldest_time > 3 * self.RTO
OldestExpired(s, player_id) ==
    LET w == s.client_windows[player_id]
        t == s.client_timers[player_id]
        oldest_seq == IF DOMAIN w # {} THEN Min(DOMAIN w) ELSE s.client_base[player_id]
    IN  IF oldest_seq \in t THEN s.late ELSE TRUE

\* _sr_send: "Resolve address"
AddrOf(s, player_id) ==
    IF player_id \in DOMAIN s.clients THEN s.clients[player_id]
    ELSE s.waiting_room_players[player_id]

\* self.server_socket.sendto(packet, addr)
SendTo(s, packet, addr) ==
    IF s.wire THEN [s EXCEPT !.out = @ \cup {[addr |-> addr, pkt |-> packet]}] ELSE s

\* create_ack_packet(ack_num=seq): sequence number 0, no payload
create_ack_packet(ack_num) == Packet(MSG_TYPE_ACK, 0, ack_num)

\* _handle_message: self.server_socket.sendto(ack_packet, addr), where
\* ack_packet acknowledges the sequence number of the packet being handled
SendAck(s, addr) ==
    IF s.acklog
    THEN [s EXCEPT !.out = @ \cup {[addr |-> addr, pkt |-> create_ack_packet(s.seq)]}]
    ELSE s

\* GameServer._sr_send
RECURSIVE SrSend(_, _, _)
SrSend(s0, player_id, msg_type) ==
    Once(s0, LAMBDA s :
        IF ~Known(s, player_id) THEN [s EXCEPT !.ok = FALSE]
        ELSE IF msg_type = MSG_TYPE_BOARD_SNAPSHOT /\ ~s.should_send_snapshots
        THEN [s EXCEPT !.ok = FALSE]
        ELSE Once(InitStructures(s, player_id), LAMBDA s1 :
            LET next_seq == s1.client_next_seq[player_id]
                b == s1.client_base[player_id]
                w == s1.client_windows[player_id]
            IN  IF next_seq >= b + SrvN
                THEN IF Cardinality(DOMAIN w) = SrvN /\ OldestExpired(s1, player_id)
                     THEN SrSend(ForceSlide(s1, player_id), player_id, msg_type)
                     ELSE [s1 EXCEPT !.ok = FALSE]
                ELSE [SendTo(s1, SrvPacket(s1, msg_type, next_seq),
                             AddrOf(s1, player_id)) EXCEPT
                         !.client_windows =
                             Put(@, player_id,
                                 Put(w, next_seq, SrvPacket(s1, msg_type, next_seq))),
                         !.client_timers =
                             Put(@, player_id, @[player_id] \cup {next_seq}),
                         !.client_next_seq = Put(@, player_id, next_seq + 1),
                         !.ok = TRUE]))

\* a _retransmit that restarts the timers that have run out and sends nothing
\* (a faulty variant)
RetransmitSendsNothing(s0) ==
    Once(s0, LAMBDA s :
        LET keep == {p \in DOMAIN s.client_timers : Known(s, p)}
        IN  [s EXCEPT
                !.client_timers = [p \in keep |-> s.client_timers[p]],
                !.client_windows =
                    [p \in {x \in DOMAIN s.client_windows :
                                x \in DOMAIN s.client_timers => x \in keep} |->
                        s.client_windows[p]],
                !.due = {}])

\* GameServer._retransmit: the entries of players that are gone are dropped;
\* for a player that is there, every packet whose timer is RTO or more in the
\* past is sent again from the window (window[seq]) and its timer restarted,
\* which leaves the keys of the windows and of the timers as they are. A timer
\* without a packet in the window raises KeyError, which is caught: nothing is
\* sent and the timer stays as it is.
SrvRetransmit(s0) ==
    Once(s0, LAMBDA s :
        LET keep == {p \in DOMAIN s.client_timers : Known(s, p)}
            again == {k \in s.due :
                         /\ k[1] \in keep
                         /\ k[2] \in s.client_timers[k[1]]
                         /\ k[1] \in DOMAIN s.client_windows
                         /\ k[2] \in DOMAIN s.client_windows[k[1]]}
        IN  [s EXCEPT
                !.client_timers = [p \in keep |-> s.client_timers[p]],
                !.client_windows =
                    [p \in {x \in DOMAIN s.client_windows :
                                x \in DOMAIN s.client_timers => x \in keep} |->
                        s.client_windows[p]],
                !.due = @ \ again,
                !.resent = @ \cup {<<k[1], k[2], s.client_windows[k[1]][k[2]]>> :
                                      k \in again},
                !.out = IF s.wire
                        THEN @ \cup {[addr |-> AddrOf(s, k[1]),
                                      pkt |-> s.client_windows[k[1]][k[2]]] : k \in again}
                        ELSE @])

\* GameServer._handle_ack
SrvHandleAck(s, player_id, ack_num) ==
    IF player_id \notin DOMAIN s.client_windows THEN s
    ELSE LET w == s.client_windows[player_id]
             b == IF player_id \in DOMAIN s.client_base
                  THEN s.client_base[player_id] ELSE 0
             next_seq == IF player_id \in DOMAIN s.client_next_seq
                         THEN s.client_next_seq[player_id] ELSE 0
         IN  IF ack_num \in DOMAIN w
             THEN LET w1 == Remove(w, ack_num)
                      new_base == SlideWhileAbsent(b, w1, next_seq)
                      s1 == [s EXCEPT
                               !.client_windows = Put(@, player_id, w1),
                               !.client_timers =
                                   IF player_id \in DOMAIN @
                                   THEN Put(@, player_id, @[player_id] \ {ack_num})
                                   ELSE @]
                  IN  IF new_base # b
                      THEN [s1 EXCEPT !.client_base = Put(@, player_id, new_base)]
                      ELSE s1
             ELSE s

\* ------------------------------------------------------------------------
\* GameServer: session and grid
\* ------------------------------------------------------------------------
\* _sr_send to each player of pids in turn
RECURSIVE SendEach(_, _, _)
SendEach(s, pids, msg_type) ==
    IF pids = {} THEN s
    ELSE SendEach(SrSend(s, Min(pids), msg_type), pids \ {Min(pids)}, msg_type)

\* _send_snapshot's loop: sent_count over the active clients
RECURSIVE SnapshotEach(_, _, _)
SnapshotEach(s, pids, sent_count) ==
    IF pids = {} THEN [state |-> s, sent_count |-> sent_count]
    ELSE Once(SrSend(s, Min(pids), MSG_TYPE_BOARD_SNAPSHOT), LAMBDA s1 :
             SnapshotEach(s1, pids \ {Min(pids)},
                          IF s1.ok THEN sent_count + 1 ELSE sent_count))

\* _send_snapshot without "self.snapshot_id += 1"
SendSnapshotSameId(s0) ==
    Once(s0, LAMBDA s :
        IF ~s.should_send_snapshots THEN s
        ELSE SnapshotEach(s, DOMAIN s.clients, 0).state)

\* GameServer._send_snapshot
SendSnapshot(s0) ==
    Once(s0, LAMBDA s :
        IF ~s.should_send_snapshots THEN s
        ELSE Once(SnapshotEach(s, DOMAIN s.clients, 0), LAMBDA r :
                 IF r.sent_count > 0
                 THEN [r.state EXCEPT !.snapshot_id = @ + 1]
                 ELSE r.state))

\* a lookup that knows no endpoint (a faulty variant of _addr_to_pid)
AddrToPidNone(s, addr) == 0

\* GameServer._addr_to_pid (0 stands for None)
AddrToPid(s, addr) ==
    IF \E p \in DOMAIN s.clients : s.clients[p] = addr
    THEN Min({p \in DOMAIN s.clients : s.clients[p] = addr})
    ELSE IF \E p \in DOMAIN s.waiting_room_players : s.waiting_room_players[p] = addr
    THEN Min({p \in DOMAIN s.waiting_room_players : s.waiting_room_players[p] = addr})
    ELSE 0

\* calculate_scores_from_grid: cells per owner, in insertion order of the dict
\* (row-major first appearance), sorted by score, highest first (sorted is stable)
Score(grid, p) == Cardinality({cell \in Cells : grid[cell] = p})

FirstSeen(grid, p) ==
    Min({cell[1] * GridDim + cell[2] : cell \in {x \in Cells : grid[x] = p}})

RECURSIVE SortedScores(_, _)
SortedScores(grid, owners) ==
    IF owners = {} THEN <<>>
    ELSE LET best == CHOOSE p \in owners : \A q \in owners \ {p} :
                         \/ Score(grid, p) > Score(grid, q)
                         \/ /\ Score(grid, p) = Score(grid, q)
                            /\ FirstSeen(grid, p) < FirstSeen(grid, q)
         IN  <<<<best, Score(grid, best)>>>> \o SortedScores(grid, owners \ {best})

calculate_scores_from_grid(grid) ==
    SortedScores(grid, {grid[cell] : cell \in Cells} \ {0})

\* pack_leaderboard_data unpacks every entry as (pid, score, rank): an entry of
\* another length raises ValueError
PackLeaderboardRaises(leaderboard) ==
    \E i \in 1..Len(leaderboard) : Len(leaderboard[i]) # 3

\* GameServer._end_game_with_scores
EndGameWithScores(s0) ==
    Once(s0, LAMBDA s :
        IF ~s.game_active THEN s
        ELSE LET pids == DOMAIN s.clients
                 s1 == [s EXCEPT !.game_active = FALSE, !.should_send_snapshots = FALSE]
             IN  Once(SendEach(s1, pids, MSG_TYPE_GAME_OVER), LAMBDA s2 :
                 LET s3 == [s2 EXCEPT
                              !.end_calls = [p \in pids |-> <<MSG_TYPE_GAME_OVER>>],
                              !.final_scores = calculate_scores_from_grid(s2.grid_state)]
                 IN  IF PackLeaderboardRaises(s3.final_scores)
                     THEN [s3 EXCEPT !.raised = TRUE]
                     ELSE [SendEach(s3, pids, MSG_TYPE_LEADERBOARD) EXCEPT
                              !.end_calls =
                                  [p \in pids |->
                                      <<MSG_TYPE_GAME_OVER, MSG_TYPE_LEADERBOARD>>],
                              !.reset_pending = @ + 1]))

\* _remove_player_and_cells up to its end-of-game check: the cells are
\* released and the player is popped from every dictionary
\* a removal that releases the cells and the peer entry of the player but
\* keeps its send window and timers
ReleaseAndKeepWindow(s, player_id) ==
    LET was_in_active_game == player_id \in DOMAIN s.clients
        owned == IF was_in_active_game
                 THEN {cell \in Cells : s.grid_state[cell] = player_id} ELSE {}
    IN  [s EXCEPT
            !.grid_state = [cell \in Cells |-> IF cell \in owned THEN 0 ELSE @[cell]],
            !.grid_claim_time = [cell \in Cells |-> IF cell \in owned THEN 0 ELSE @[cell]],
            !.clients = Remove(@, player_id),
            !.waiting_room_players = Remove(@, player_id),
            !.grid_changed = IF owned # {} THEN TRUE ELSE @]

ReleaseAndPop(s, player_id) ==
    LET was_in_active_game == player_id \in DOMAIN s.clients
        owned == IF was_in_active_game
                 THEN {cell \in Cells : s.grid_state[cell] = player_id} ELSE {}
    IN  [s EXCEPT
            !.grid_state = [cell \in Cells |-> IF cell \in owned THEN 0 ELSE @[cell]],
            !.grid_claim_time = [cell \in Cells |-> IF cell \in owned THEN 0 ELSE @[cell]],
            !.clients = Remove(@, player_id),
            !.client_windows = Remove(@, player_id),
            !.client_timers = Remove(@, player_id),
            !.client_next_seq = Remove(@, player_id),
            !.client_base = Remove(@, player_id),
            !.waiting_room_players = Remove(@, player_id),
            !.grid_changed = IF owned # {} THEN TRUE ELSE @]

\* GameServer._remove_player_and_cells
RemovePlayerAndCells(s0, player_id) ==
    Once(s0, LAMBDA s :
        LET was_in_active_game == player_id \in DOMAIN s.clients IN
        Once(ReleaseAndPop(s, player_id), LAMBDA s1 :
        Once(IF /\ s1.game_active
                /\ was_in_active_game
                /\ Cardinality(DOMAIN s1.clients) < min_players
             THEN EndGameWithScores(s1) ELSE s1, LAMBDA s2 :
            IF s2.raised THEN s2
            ELSE IF DOMAIN s2.clients = {} /\ DOMAIN s2.waiting_room_players = {}
            THEN [s2 EXCEPT !.should_send_snapshots = FALSE,
                            !.grid_state = EmptyGrid,
                            !.grid_claim_time = EmptyGrid,
                            !.grid_changed = TRUE]
            ELSE s2)))

\* GameServer._start_game
StartGame(s0) ==
    Once(s0, LAMBDA s :
        LET s1 == [s EXCEPT
                     !.game_active = TRUE,
                     !.should_send_snapshots = TRUE,
                     !.game_start_time = "running",
                     !.clients = [p \in (DOMAIN @) \cup DOMAIN s.waiting_room_players |->
                                     IF p \in DOMAIN s.waiting_room_players
                                     THEN s.waiting_room_players[p] ELSE @[p]],
                     !.waiting_room_players = EmptyMap]
        IN  SendSnapshot(SendEach(s1, DOMAIN s1.clients, MSG_TYPE_GAME_START)))

\* "while new_pid in self.waiting_room_players or new_pid in self.clients:
\* new_pid += 1"
RECURSIVE NextFreePid(_, _)
NextFreePid(s, new_pid) ==
    IF new_pid \in DOMAIN s.waiting_room_players \/ new_pid \in DOMAIN s.clients
    THEN NextFreePid(s, new_pid + 1)
    ELSE new_pid

\* an assignment that numbers the players in the order of their arrival
PidAfterLargest(s) ==
    LET used == (DOMAIN s.clients) \cup DOMAIN s.waiting_room_players
    IN  IF used = {} THEN 1 ELSE 1 + CHOOSE p \in used : \A u \in used : u <= p

\* _handle_message, JOIN_REQ branch: the id of a new player
NewPid(s) == NextFreePid(s, 1)

\* _handle_message, JOIN_REQ branch
HandleJoinReq(s, addr) ==
    LET existing_pid == AddrToPid(s, addr) IN
    IF existing_pid # 0 THEN SrSend(s, existing_pid, MSG_TYPE_JOIN_RESP)
    ELSE LET new_pid == NewPid(s)
             s1 == [s EXCEPT !.waiting_room_players = Put(@, new_pid, addr)]
         IN  Once(SrSend(s1, new_pid, MSG_TYPE_JOIN_RESP), LAMBDA s2 :
             IF s2.game_active
             THEN IF Cardinality(DOMAIN s2.clients) < MaxActive
                  THEN LET s3 == [s2 EXCEPT
                                    !.clients = Put(@, new_pid, addr),
                                    !.waiting_room_players = Remove(@, new_pid)]
                       IN  SendSnapshot(SrSend(s3, new_pid, MSG_TYPE_GAME_START))
                  ELSE s2
             ELSE IF Cardinality(DOMAIN s2.waiting_room_players) >= 1
                  THEN StartGame(s2)
                  ELSE s2)

\* a comparison that also accepts an equal timestamp (a faulty variant)
NewerOrEqual(claim_time, stored) == claim_time >= stored

\* a comparison that accepts every timestamp but the stored one: the last
\* claim handled wins (a faulty variant)
Different(claim_time, stored) == claim_time # stored

\* "Accept only newer claims": claim_time > self.grid_claim_time[r][c]
Newer(claim_time, stored) == claim_time > stored

\* _handle_message, CLAIM_REQ branch (payload of 4 bytes: r, c, client_ack_num)
HandleClaimReq(s0, addr, r, c, client_ack_num, claim_time) ==
    LET player_id == AddrToPid(s0, addr) IN
    Once(SendAck(s0, addr), LAMBDA s :
    IF player_id = 0 THEN s
    ELSE Once(SrvHandleAck(s, player_id, client_ack_num), LAMBDA s1 :
             IF InRange(r, c) /\ Newer(claim_time, s1.grid_claim_time[<<r, c>>])
             THEN [s1 EXCEPT !.grid_state[<<r, c>>] = player_id,
                             !.grid_claim_time[<<r, c>>] = claim_time,
                             !.grid_changed = TRUE,
                             !.done = IF s1.acklog THEN {<<addr, s1.seq>>} ELSE {}]
             ELSE s1))

\* _handle_message, LEAVE branch
HandleLeave(s0, addr) ==
    Once(SendAck(s0, addr), LAMBDA s :
    LET player_id == AddrToPid(s, addr) IN
    IF player_id = 0 THEN s
    ELSE LET was_game_active == s.game_active
         IN  Once(RemovePlayerAndCells(s, player_id), LAMBDA s1 :
             IF s1.raised THEN s1
             ELSE IF /\ was_game_active
                     /\ s1.game_active
                     /\ Cardinality(DOMAIN s1.clients) < min_players
             THEN EndGameWithScores(s1)
             ELSE s1))

\* _handle_message, ACK branch
HandleAckMsg(s, addr, ack_val) ==
    LET player_id == AddrToPid(s, addr) IN
    IF player_id = 0 THEN s ELSE SrvHandleAck(s, player_id, ack_val)

\* GameServer._handle_message: the validation, then the branch of the type
HandleMessage(s0, data, addr) ==
    Once(parse_packet(data), LAMBDA parsed :
        LET s == [s0 EXCEPT !.seq = data.seq_num] IN
        IF ~parsed.header THEN s
        ELSE IF ~parsed.valid THEN s
        ELSE IF data.msg_type = MSG_TYPE_JOIN_REQ THEN HandleJoinReq(s, addr)
        ELSE IF data.msg_type = MSG_TYPE_LEAVE THEN HandleLeave(s, addr)
        ELSE IF data.msg_type = MSG_TYPE_ACK THEN HandleAckMsg(s, addr, data.ack_num)
        ELSE s)

\* _handle_message wraps its body in try/except Exception
Caught(s) == [s EXCEPT !.raised = FALSE]

\* GameServer._reset_game_state
ResetGameState(s) ==
    [s EXCEPT !.grid_state = EmptyGrid,
              !.grid_claim_time = EmptyGrid,
              !.grid_changed = FALSE,
              !.game_active = FALSE,
              !.should_send_snapshots = FALSE,
              !.game_start_time = "None",
              !.clients = EmptyMap,
              !.waiting_room_players = EmptyMap,
              !.client_windows = EmptyMap,
              !.client_timers = EmptyMap,
              !.client_next_seq = EmptyMap,
              !.client_base = EmptyMap,
              !.snapshot_id = 0,
              !.final_scores = <<>>]

\* GameServer._reset_for_new_game
ResetForNewGame(s) ==
    ResetGameState(SendEach(s, DOMAIN s.clients, MSG_TYPE_GAME_OVER))

\* GameServer.end_game
EndGame(s) ==
    LET s1 == [s EXCEPT !.game_active = FALSE, !.should_send_snapshots = FALSE]
    IN  Once(SendEach(s1, DOMAIN s1.clients, MSG_TYPE_GAME_OVER), LAMBDA s2 :
            EndGameWithScores([s2 EXCEPT !.grid_state = EmptyGrid,
                                         !.grid_claim_time = EmptyGrid,
                                         !.grid_changed = FALSE]))

\* ------------------------------------------------------------------------
\* Server actions. Each takes the inputs of its specification: sc.addrs, the
\* endpoints that send datagrams; sc.coords and sc.ts, the (row, column) pairs
\* and the timestamps of the claims; sc.acks, the acknowledgment numbers of
\* ACK packets; sc.late, whether a handler may find the oldest packet of a full
\* window older than 3 * RTO; sc.in_turn, whether the endpoints connect in
\* turn (an endpoint sends JOIN_REQUEST only while it is not connected and
\* every endpoint below it is); sc.record, whether the claims on ProbeCell
\* are recorded in handled; sc.snapshots, the cap on snapshot_id; sc.detail,
\* whether the windows keep the header fields of the packets; sc.room, how far
\* below the caps a message handler stops; sc.wire, whether the datagrams sent
\* are kept in to_client; sc.seqs, the cap on the sequence numbers; sc.rx, the
\* sequence numbers of the packets received; sc.acklog, whether the ACK
\* packets sent are kept in to_client.
\* ------------------------------------------------------------------------
threadVars == <<timer_thread, timeout_thread>>

\* GameServer.start
ServerStart ==
    /\ ~running
    /\ running' = TRUE
    /\ UNCHANGED <<clients, waiting_room_players, client_windows, client_timers,
                   client_next_seq, client_base, grid_state, grid_claim_time,
                   game_active, grid_changed, should_send_snapshots, game_start_time,
                   snapshot_id, final_scores, reset_pending, loop_pc, end_calls,
                   handled, applied, arqVars, threadVars, clientVars>>

\* _server_loop: recvfrom and _handle_message (s: the server once the handler
\* has run), then on to the snapshot check
HandledDatagram(sc, s0, news) ==
    /\ running
    /\ loop_pc = "recv"
    /\ \E s \in {s0} : HandlerBounded(sc, s) /\ SetServer(Caught(s), news)
    /\ loop_pc' = "post"
    /\ UNCHANGED threadVars

\* the same for a valid datagram
Handled(sc, s0, news) == HandledDatagram(sc, s0, news) /\ UNCHANGED clientVars

InTurn(s, a) ==
    /\ AddrToPid(s, a) = 0
    /\ \A b \in 1..(a - 1) : AddrToPid(s, b) # 0

SRecvJoin(sc) ==
    \E a \in sc.addrs, late \in sc.late, q \in sc.rx :
        /\ sc.in_turn => InTurn(ServerOf(sc, late), a)
        /\ Handled(sc, HandleJoinReq(ServerRx(sc, late, q), a), {})

\* the claim this CLAIM_REQUEST adds to the record of its cell
ClaimNote(sc, s, a, r, c, t) ==
    IF sc.record /\ AddrToPid(s, a) # 0 /\ InRange(r, c)
    THEN {<<<<r, c>>, <<AddrToPid(s, a), t>>>>}
    ELSE {}

SRecvClaim(sc) ==
    \E a \in sc.addrs, rc \in sc.coords, k \in 0..MaxClaimAck, t \in sc.ts, q \in sc.rx :
        Handled(sc, HandleClaimReq(ServerRx(sc, FALSE, q), a, rc[1], rc[2], k, t),
                ClaimNote(sc, ServerOf(sc, FALSE), a, rc[1], rc[2], t))

SRecvLeave(sc) ==
    \E a \in sc.addrs, late \in sc.late, q \in sc.rx :
        Handled(sc, HandleLeave(ServerRx(sc, late, q), a), {})

SRecvAck(sc) ==
    \E a \in sc.addrs, k \in sc.acks : Handled(sc, HandleAckMsg(ServerOf(sc, FALSE), a, k), {})

\* _server_loop: select reports no datagram
SRecvNone ==
    /\ running
    /\ loop_pc = "recv"
    /\ loop_pc' = "post"
    /\ end_calls' = EmptyMap
    /\ UNCHANGED <<running, clients, waiting_room_players, client_windows,
                   client_timers, client_next_seq, client_base, grid_state,
                   grid_claim_time, game_active, grid_changed, should_send_snapshots,
                   game_start_time, snapshot_id, final_scores, reset_pending,
                   handled, applied, arqVars, threadVars, clientVars>>

\* _server_loop after the receive: "send only when grid changed and we have
\* active clients", then self._retransmit()
LoopTail(s) ==
    SrvRetransmit(IF s.grid_changed /\ DOMAIN s.clients # {}
                  THEN [SendSnapshot(s) EXCEPT !.grid_changed = FALSE]
                  ELSE s)

SLoopTail(sc) ==
    \E late \in sc.late :
        /\ running
        /\ loop_pc = "post"
        /\ \E s \in {LoopTail(ServerOf(sc, late))} : Bounded(sc, s) /\ SetServer(s, {})
        /\ loop_pc' = "recv"
        /\ UNCHANGED <<threadVars, clientVars>>

\* time passes: game_duration seconds have gone by since game_start_time
DurationElapses ==
    /\ game_start_time = "running"
    /\ game_start_time' = "expired"
    /\ end_calls' = EmptyMap
    /\ UNCHANGED <<running, clients, waiting_room_players, client_windows,
                   client_timers, client_next_seq, client_base, grid_state,
                   grid_claim_time, game_active, grid_changed, should_send_snapshots,
                   snapshot_id, final_scores, reset_pending, loop_pc,
                   handled, applied, arqVars, threadVars, clientVars>>

\* time passes: every timer that is running now is RTO or more in the past
RtoElapses ==
    /\ due # TimerKeys(Server(FALSE))
    /\ due' = TimerKeys(Server(FALSE))
    /\ end_calls' = EmptyMap
    /\ UNCHANGED <<running, clients, waiting_room_players, client_windows,
                   client_timers, client_next_seq, client_base, grid_state,
                   grid_claim_time, game_active, grid_changed, should_send_snapshots,
                   game_start_time, snapshot_id, final_scores, reset_pending, loop_pc,
                   handled, applied, resent, to_client, threadVars, clientVars>>

\* _game_timer_thread: "while self.running" is false, the thread returns
GameTimerExit ==
    /\ timer_thread = "started"
    /\ ~running
    /\ timer_thread' = "dead"
    /\ UNCHANGED <<running, clients, waiting_room_players, client_windows,
                   client_timers, client_next_seq, client_base, grid_state,
                   grid_claim_time, game_active, grid_changed, should_send_snapshots,
                   game_start_time, snapshot_id, final_scores, reset_pending, loop_pc,
                   end_calls, handled, applied, arqVars, timeout_thread, clientVars>>

\* _game_timer_thread: elapsed >= self.game_duration. An exception that
\* _end_game_with_scores raises ends the thread before game_start_time = None.
TimerExpiry(s) ==
    Once(EndGameWithScores(s), LAMBDA s1 :
        IF s1.raised THEN s1 ELSE [s1 EXCEPT !.game_start_time = "None"])

GameTimerExpire(sc) ==
    \E late \in sc.late :
        /\ timer_thread = "started"
        /\ running
        /\ game_active
        /\ game_start_time = "expired"
        /\ \E s \in {TimerExpiry(ServerOf(sc, late))} :
               /\ Bounded(sc, s)
               /\ SetServer(Caught(s), {})
               /\ timer_thread' = IF s.raised THEN "dead" ELSE "started"
        /\ UNCHANGED <<loop_pc, timeout_thread, clientVars>>

\* _player_timeout_thread: "while self.running" is false, the thread returns
TimeoutThreadExit ==
    /\ timeout_thread = "started"
    /\ ~running
    /\ timeout_thread' = "dead"
    /\ UNCHANGED <<running, clients, waiting_room_players, client_windows,
                   client_timers, client_next_seq, client_base, grid_state,
                   grid_claim_time, game_active, grid_changed, should_send_snapshots,
                   game_start_time, snapshot_id, final_scores, reset_pending, loop_pc,
                   end_calls, handled, applied, arqVars, timer_thread, clientVars>>

\* _check_player_timeouts finding one active client silent for more than 10 s;
\* the thread catches what _remove_player raises
PlayerTimeout(sc) ==
    \E p \in DOMAIN clients, late \in sc.late :
        /\ timeout_thread = "started"
        /\ running
        /\ \E s \in {RemovePlayerAndCells(ServerOf(sc, late), p)} :
               Bounded(sc, s) /\ SetServer(Caught(s), {})
        /\ UNCHANGED <<loop_pc, threadVars, clientVars>>

\* the GUI thread runs a _reset_for_new_game that root.after scheduled
ResetCallback(sc) ==
    \E late \in sc.late :
        /\ reset_pending > 0
        /\ SetServer([ResetForNewGame(ServerOf(sc, late)) EXCEPT !.reset_pending = @ - 1], {})
        /\ UNCHANGED <<loop_pc, threadVars, clientVars>>

\* the operator ends the running match (GameServer.end_game)
EndGameButton(sc) ==
    \E late \in sc.late :
        /\ running
        /\ game_active
        /\ \E s \in {EndGame(ServerOf(sc, late))} :
               Bounded(sc, s) /\ SetServer(Caught(s), {})
        /\ UNCHANGED <<loop_pc, threadVars, clientVars>>

\* ------------------------------------------------------------------------
\* Client actions
\* ------------------------------------------------------------------------
\* the message type of the packets sent (the sender never reads it)
ClientSendTypes == {MSG_TYPE_CLAIM_REQ}

\* the GUI calls connect() (500 ms after start, or the Connect button)
CConnect ==
    /\ client_socket = 0
    /\ sockets < MaxSockets
    /\ SetClient(ClientConnect(Client))
    /\ UNCHANGED serverVars

\* the Disconnect button
CDisconnect ==
    /\ client_socket # 0
    /\ SetClient(ClientDisconnect(Client))
    /\ UNCHANGED serverVars

\* _send_claim_request calling _sr_send
CSend ==
    \E t \in ClientSendTypes :
        /\ client_socket # 0
        /\ nextSeqNum < MaxClientSeq
        /\ SetClient(ClientSrSend(Client, t))
        /\ UNCHANGED serverVars

\* _timer_loop finding now - self.timers[seq] >= self.RTO and calling
\* _retransmit (time is not modelled: any running timer may have run out)
CRetransmit ==
    \E s \in timers :
        /\ client_socket # 0
        /\ SetClient(ClientRetransmit(Client, s))
        /\ UNCHANGED serverVars

\* _receive_loop receiving an ACK packet
CRecvAck ==
    \E a \in 0..MaxAckNum :
        /\ client_socket # 0
        /\ SetClient(ClientReceive(Client, Packet(MSG_TYPE_ACK, 0, a)))
        /\ UNCHANGED serverVars

RecvTypes == {MSG_TYPE_JOIN_RESP, MSG_TYPE_BOARD_SNAPSHOT}

\* _receive_loop receiving a data packet of the server (the server's packets
\* carry ack_num 0)
CRecvData ==
    \E s \in 0..MaxRecvSeq, t \in RecvTypes :
        /\ client_socket # 0
        /\ SetClient(ClientReceive(Client, Packet(t, s, 0)))
        /\ UNCHANGED serverVars

NextClientSender == CConnect \/ CSend \/ CRetransmit \/ CRecvAck

NextClientReceiver == CConnect \/ CRecvData

\* ------------------------------------------------------------------------
\* Specifications
\* ------------------------------------------------------------------------
Init == ClientInit /\ ServerInit

\* The session: joins, claims and departures of NumAddrs endpoints, the
\* server loop and the scheduled reset.
Session ==
    [addrs |-> Addrs, coords |-> ClaimCoords, ts |-> 1..MaxTs, acks |-> {},
     late |-> {FALSE}, in_turn |-> FALSE, record |-> TRUE,
     snapshots |-> MaxSnapshot, detail |-> FALSE, room |-> 0, wire |-> FALSE,
     seqs |-> MaxSeq, rx |-> {0}, acklog |-> FALSE]

Next ==
    \/ ServerStart
    \/ SRecvJoin(Session)
    \/ SRecvClaim(Session)
    \/ SRecvLeave(Session)
    \/ SRecvNone
    \/ SLoopTail(Session)
    \/ ResetCallback(Session)

Spec == Init /\ [][Next]_vars

\* The server's ARQ sender: joins (a repeated JOIN_REQUEST is answered with one
\* more JOIN_RESPONSE), departures and acknowledgments of NumAddrs endpoints.
Arq ==
    [addrs |-> Addrs, coords |-> {}, ts |-> {}, acks |-> 0..MaxSrvAck,
     late |-> BOOLEAN, in_turn |-> FALSE, record |-> FALSE,
     snapshots |-> MaxSnapshot, detail |-> FALSE, room |-> 0, wire |-> FALSE,
     seqs |-> MaxSeq, rx |-> {0}, acklog |-> FALSE]

NextArq ==
    \/ ServerStart
    \/ SRecvJoin(Arq)
    \/ SRecvLeave(Arq)
    \/ SRecvAck(Arq)
    \/ SRecvNone
    \/ SLoopTail(Arq)
    \/ ResetCallback(Arq)

SpecArq == Init /\ [][NextArq]_vars

\* The waiting room: MaxActive + 1 endpoints, so that a joiner finds the running
\* game full and stays in the waiting room; claims on one cell.
Crowd ==
    [addrs |-> CrowdAddrs, coords |-> OneCoord, ts |-> {1}, acks |-> {},
     late |-> {FALSE}, in_turn |-> TRUE, record |-> FALSE,
     snapshots |-> MaxSnapshot + 2, detail |-> FALSE, room |-> 0, wire |-> FALSE,
     seqs |-> MaxSeq, rx |-> {0}, acklog |-> FALSE]

NextCrowd ==
    \/ ServerStart
    \/ SRecvJoin(Crowd)
    \/ SRecvClaim(Crowd)
    \/ SRecvLeave(Crowd)
    \/ SRecvNone
    \/ SLoopTail(Crowd)
    \/ ResetCallback(Crowd)

SpecCrowd == Init /\ [][NextCrowd]_vars

\* The threads of the server: the server loop, the game timer, the player
\* timeout checker and the GUI thread (the operator's End Game button and the
\* callbacks scheduled with root.after), with claims on one cell.
Live ==
    [addrs |-> Addrs, coords |-> OneCoord, ts |-> {1}, acks |-> {},
     late |-> {FALSE}, in_turn |-> FALSE, record |-> FALSE,
     snapshots |-> MaxSnapshot, detail |-> FALSE, room |-> 0, wire |-> FALSE,
     seqs |-> MaxSeq, rx |-> {0}, acklog |-> FALSE]

NextLive ==
    \/ ServerStart
    \/ SRecvJoin(Live)
    \/ SRecvClaim(Live)
    \/ SRecvLeave(Live)
    \/ SRecvNone
    \/ SLoopTail(Live)
    \/ DurationElapses
    \/ GameTimerExit
    \/ GameTimerExpire(Live)
    \/ TimeoutThreadExit
    \/ PlayerTimeout(Live)
    \/ ResetCallback(Live)
    \/ EndGameButton(Live)

\* Every thread that can take a step eventually takes one, and a scheduled
\* callback eventually runs. Nothing is assumed of the network, of the
\* operator or of how long the players stay silent.
SpecLive ==
    /\ Init
    /\ [][NextLive]_vars
    /\ WF_vars(SLoopTail(Live))
    /\ WF_vars(GameTimerExit)
    /\ WF_vars(GameTimerExpire(Live))
    /\ WF_vars(TimeoutThreadExit)
    /\ WF_vars(ResetCallback(Live))

\* Retransmission: the server's sender with the passing of time, and the
\* client's sender. The two objects share no field: a behaviour is one of the
\* server (the client has sent nothing) or one of the client (the server was
\* never started).
Retx ==
    [addrs |-> OneAddr, coords |-> {}, ts |-> {}, acks |-> 0..MaxSrvAck,
     late |-> {FALSE}, in_turn |-> FALSE, record |-> FALSE,
     snapshots |-> MaxSnapshot, detail |-> TRUE, room |-> 1, wire |-> FALSE,
     seqs |-> MaxSeq, rx |-> {0}, acklog |-> FALSE]

ServerOnly == sockets = 0

ClientOnly == ~running

NextRetx ==
    \/ ServerOnly /\ ServerStart
    \/ SRecvJoin(Retx)
    \/ SRecvLeave(Retx)
    \/ SRecvAck(Retx)
    \/ SRecvNone
    \/ SLoopTail(Retx)
    \/ RtoElapses
    \/ ResetCallback(Retx)
    \/ ClientOnly /\ CConnect
    \/ ClientOnly /\ nextSeqNum < MaxRetxSeq /\ CSend
    \/ ClientOnly /\ CRetransmit
    \/ ClientOnly /\ CRecvAck

\* Time passes, the server loop goes round (select returns after 10 ms when
\* no datagram arrives), and the client's _timer_loop looks at every timer.
\* The oldest packet of a full window is never found older than 3 * RTO: the
\* loop restarts every timer that has reached RTO.
SpecRetx ==
    /\ Init
    /\ [][NextRetx]_vars
    /\ WF_vars(RtoElapses)
    /\ WF_vars(SRecvNone)
    /\ WF_vars(SLoopTail(Retx))
    /\ WF_vars(ClientOnly /\ CRetransmit)

\* The link from the server to the client: the client connects, disconnects
\* and connects again (a new socket every time); the server handles the
\* datagrams the client has sent, the client the datagrams the server has sent
\* to the address of its socket. A datagram once sent may arrive at any time
\* and any number of times, or never (loss, duplication, reordering), so the
\* retransmissions add nothing to what may arrive.
Link(addrs, acks) ==
    [addrs |-> addrs, coords |-> {}, ts |-> {}, acks |-> acks,
     late |-> {FALSE}, in_turn |-> FALSE, record |-> FALSE,
     snapshots |-> MaxSnapshot, detail |-> TRUE, room |-> 0, wire |-> TRUE,
     seqs |-> MaxLinkSeq, rx |-> {0}, acklog |-> FALSE]

\* the addresses that have sent a packet of this type
Senders(msg_type) == {d.addr : d \in {x \in to_server : x.pkt.msg_type = msg_type}}

LRecvJoin == SRecvJoin(Link(Senders(MSG_TYPE_JOIN_REQ), {}))

LRecvLeave == SRecvLeave(Link(Senders(MSG_TYPE_LEAVE), {}))

LRecvAck ==
    \E d \in to_server :
        /\ d.pkt.msg_type = MSG_TYPE_ACK
        /\ SRecvAck(Link({d.addr}, {d.pkt.ack_num}))

\* _receive_loop receiving the packet seq that the server sent to the address
\* of the client's socket
LRecvData(a, q) ==
    /\ client_socket = a
    /\ \E d \in to_client :
           /\ d.addr = a
           /\ d.pkt.seq_num = q
           /\ \E c \in {ClientReceive(Client, Packet(d.pkt.msg_type, q, 0))} :
                  SetClient(c)
    /\ UNCHANGED serverVars

NextLink ==
    \/ ServerStart
    \/ CConnect
    \/ CDisconnect
    \/ LRecvJoin
    \/ LRecvLeave
    \/ LRecvAck
    \/ SRecvNone
    \/ SLoopTail(Link({}, {}))
    \/ \E a \in 1..MaxSockets, q \in 0..(MaxLinkSeq - 1) : LRecvData(a, q)

\* Every packet sent to the address of the client's socket arrives there in
\* the end. (A packet that _sr_send accepted has been sent, so nothing more is
\* asked of the server.)
SpecLink ==
    /\ Init
    /\ [][NextLink]_vars
    /\ \A a \in 1..MaxSockets, q \in 0..(MaxLinkSeq - 1) : WF_vars(LRecvData(a, q))

\* The snapshots: joins, claims and departures of NumAddrs endpoints that
\* acknowledge nothing, the server loop with its retransmissions; the packets
\* keep their snapshot id and grid, and the datagrams sent are kept.
Snap ==
    [addrs |-> Addrs, coords |-> ClaimCoords, ts |-> 1..MaxTs, acks |-> {},
     late |-> {FALSE}, in_turn |-> FALSE, record |-> FALSE,
     snapshots |-> MaxSnapshot, detail |-> TRUE, room |-> 0, wire |-> TRUE,
     seqs |-> MaxSnapSeq, rx |-> {0}, acklog |-> FALSE]

NextSnap ==
    \/ ServerStart
    \/ SRecvJoin(Snap)
    \/ SRecvClaim(Snap)
    \/ SRecvLeave(Snap)
    \/ SRecvNone
    \/ SLoopTail(Snap)
    \/ RtoElapses

SpecSnap == Init /\ [][NextSnap]_vars

\* The players fall silent: the threads of SpecLive, and 10 s pass without a
\* message of a player while _player_timeout_thread is in its loop, so that
\* its next _check_player_timeouts finds the player timed out.
SpecIdle == SpecLive /\ WF_vars(PlayerTimeout(Live))

\* The datagrams: one endpoint and the client, each receiving datagrams that
\* may be truncated or have the checksum of another packet.
Wire ==
    [addrs |-> OneAddr, coords |-> {}, ts |-> {}, acks |-> {},
     late |-> {FALSE}, in_turn |-> FALSE, record |-> FALSE,
     snapshots |-> MaxSnapshot, detail |-> FALSE, room |-> 0, wire |-> FALSE,
     seqs |-> MaxLinkSeq, rx |-> {0}, acklog |-> FALSE]

WireSizes == {HEADER_SIZE - 1, HEADER_SIZE}

\* the datagrams with these types, sequence and acknowledgment numbers, and
\* with the checksum of any of them
WireDatagrams(types, seqs, acks) ==
    {WireDatagram(z, t, q, k, x.checksum) :
        z \in WireSizes, t \in types, q \in seqs, k \in acks,
        x \in {create_packet(t2, q2, k2) : t2 \in types, q2 \in seqs, k2 \in acks}}

ServerDatagrams ==
    WireDatagrams({MSG_TYPE_JOIN_REQ, MSG_TYPE_LEAVE, MSG_TYPE_ACK}, {0}, 0..MaxWireNum)

ClientDatagrams ==
    WireDatagrams({MSG_TYPE_ACK, MSG_TYPE_JOIN_RESP, MSG_TYPE_BOARD_SNAPSHOT},
                  0..MaxWireNum, {0})

\* what the receipt of data adds to discarded
Noted(receiver, data) ==
    IF Cause(data) = "none" THEN {} ELSE {<<receiver, Cause(data)>>}

\* _server_loop: recvfrom returns data from addr; "if len(data) < HEADER_SIZE:
\* continue" starts the next iteration, else _handle_message
SRecvDatagram(sc, data, addr) ==
    /\ discarded' = discarded \cup Noted("server", data)
    /\ UNCHANGED <<clientState, codec>>
    /\ IF data.size < HEADER_SIZE
       THEN running /\ loop_pc = "recv" /\ UNCHANGED serverVars
       ELSE HandledDatagram(sc, HandleMessage(ServerOf(sc, FALSE), data, addr), {})

\* _receive_loop: recvfrom returns data
CRecvDatagram(data) ==
    /\ client_socket # 0
    /\ discarded' = discarded \cup Noted("client", data)
    /\ codec' = codec
    /\ \E c \in {ClientReceiveDatagram(Client, data)} : SetClientState(c)
    /\ UNCHANGED serverVars

NextWire ==
    \/ ServerStart
    \/ CConnect
    \/ \E data \in ServerDatagrams, a \in OneAddr : SRecvDatagram(Wire, data, a)
    \/ SRecvNone
    \/ SLoopTail(Wire)
    \/ \E data \in ClientDatagrams : CRecvDatagram(data)

SpecWire == Init /\ [][NextWire]_vars

\* the client's sender
SpecClientSender == Init /\ [][NextClientSender]_vars

\* the client's receiver
SpecClientReceiver == Init /\ [][NextClientReceiver]_vars

\* sanity of the model: the four per-player dictionaries of the sender have
\* the same keys, and the timers have the keys of the window
DictsAgree ==
    /\ DOMAIN client_windows = DOMAIN client_next_seq
    /\ DOMAIN client_windows = DOMAIN client_base
    /\ DOMAIN client_windows = DOMAIN client_timers
    /\ \A p \in DOMAIN client_windows : DOMAIN client_windows[p] = client_timers[p]


\* ========================================================================
\* Properties
\* ========================================================================

\* C1: in every reachable state of the client's sender, whatever the
\* interleaving of _sr_send, _retransmit and _handle_ack (ACKs out of order,
\* duplicated or for sequence numbers never sent included), window has at
\* most N entries and base <= nextSeqNum <= base + N.
ClientWindowInvariant ==
    /\ Cardinality(DOMAIN window) <= N
    /\ base <= nextSeqNum
    /\ nextSeqNum <= base + N

\* C3: the packets handed to _process_packet are exactly 0, 1, 2, ... in
\* increasing order, each once: the sequence numbers below expected_seq have
\* been delivered once each, in order, and the buffer holds only sequence
\* numbers above expected_seq.
InOrderExactlyOnce ==
    /\ processed = [i \in 1..expected_seq |-> i - 1]
    /\ \A k \in DOMAIN receive_buffer : k > expected_seq

\* packet 2 arrived before packet 1: the last packet received is 1, and 0, 1, 2
\* have been delivered, while 3 has not arrived
ReorderedDelivery ==
    /\ last_ack_num = 1
    /\ processed = <<0, 1, 2>>
    /\ receive_buffer = EmptyMap

\* C2: for every player id that has a send window, client_windows[pid] has at
\* most N entries and client_base[pid] <= client_next_seq[pid] <=
\* client_base[pid] + N, after any sequence of _sr_send (force slide
\* included), _retransmit and _handle_ack.
ServerWindowInvariant ==
    \A p \in DOMAIN client_windows :
        /\ Cardinality(DOMAIN client_windows[p]) <= SrvN
        /\ p \in DOMAIN client_base
        /\ p \in DOMAIN client_next_seq
        /\ client_base[p] <= client_next_seq[p]
        /\ client_next_seq[p] <= client_base[p] + SrvN

\* a window that is full again after force slides: the base is beyond every
\* sequence number an ACK of the model names
FullAfterForceSlide ==
    \E p \in DOMAIN client_windows :
        /\ client_base[p] > MaxSrvAck + 1
        /\ Cardinality(DOMAIN client_windows[p]) = SrvN
        /\ client_next_seq[p] = client_base[p] + SrvN

\* C4: a CLAIM_REQUEST of player p for an in-range cell (r, c) with timestamp
\* t sets grid_state[r][c] = p and grid_claim_time[r][c] = t and marks the
\* grid dirty if and only if t > grid_claim_time[r][c]; in every other case
\* the grid, the timestamps and the dirty flag stay as they are.
ClaimRule ==
    [][\A a \in Addrs, rc \in ClaimCoords, k \in 0..MaxClaimAck, t \in 1..MaxTs :
          LET p == AddrToPid(Server(FALSE), a)
              rule == IF p # 0 /\ InRange(rc[1], rc[2]) /\ t > grid_claim_time[rc]
                      THEN /\ grid_state' = [grid_state EXCEPT ![rc] = p]
                           /\ grid_claim_time' = [grid_claim_time EXCEPT ![rc] = t]
                           /\ grid_changed'
                      ELSE UNCHANGED <<grid_state, grid_claim_time, grid_changed>>
          IN  \/ rule
              \/ ~Handled(Session, HandleClaimReq(Server(FALSE), a, rc[1], rc[2], k, t),
                          ClaimNote(Session, Server(FALSE), a, rc[1], rc[2], t))]_vars

\* a claim carrying exactly the stored timestamp was handled on ProbeCell and
\* left the cell to its owner
EqualTimestampRejected ==
    \E h \in handled :
        /\ h[2] = grid_claim_time[ProbeCell]
        /\ h[1] # grid_state[ProbeCell]

\* C5: of the claims handled on one cell, in whatever order and however often
\* each is repeated, the one with the highest timestamp wins: the cell carries
\* the highest timestamp handled and belongs to a player that claimed with it
\* (so, for two claims t1 < t2, to the t2 claimant, with timestamp t2).
HighestTimestampWins ==
    \A h \in handled :
        /\ h[2] <= grid_claim_time[ProbeCell]
        /\ (\A g \in handled : g[2] <= h[2]) =>
               /\ grid_claim_time[ProbeCell] = h[2]
               /\ \E g \in handled : g[2] = h[2] /\ g[1] = grid_state[ProbeCell]

\* two players claimed ProbeCell with timestamps t1 < t2, and nobody else
\* claimed with t2
TwoClaimsHandled ==
    \E h1 \in handled, h2 \in handled :
        /\ h1[2] < h2[2]
        /\ h1[1] # h2[1]
        /\ \A g \in handled : g[2] = h2[2] => g[1] = h2[1]
        /\ grid_state[ProbeCell] = h2[1]

\* C6: removing a peer that owns k cells leaves exactly those cells unclaimed
\* with timestamp 0 and the grid dirty, and no cell belongs to the removed id
\* afterwards, whether the peer was active or in the waiting room. (The cells
\* of the others are compared only while a peer remains: the departure of the
\* last peer resets the whole grid.)
LeaveReleasesCells ==
    [][\A a \in CrowdAddrs :
          LET p == AddrToPid(Server(FALSE), a)
              owned == {cell \in Cells : grid_state[cell] = p}
          IN  (p # 0 /\ Handled(Crowd, HandleLeave(Server(FALSE), a), {}))
              => /\ \A cell \in Cells : grid_state'[cell] # p
                 /\ \A cell \in owned : grid_claim_time'[cell] = 0
                 /\ owned # {} => grid_changed'
                 /\ (DOMAIN clients') \cup (DOMAIN waiting_room_players') # {}
                        => \A cell \in Cells \ owned :
                               /\ grid_state'[cell] = grid_state[cell]
                               /\ grid_claim_time'[cell] = grid_claim_time[cell]]_vars

\* C7: when game_active becomes true, at least min_players peers are connected.
StartNeedsMinPlayers ==
    [][(~game_active /\ game_active')
          => Cardinality((DOMAIN clients') \cup (DOMAIN waiting_room_players'))
                 >= min_players]_vars

\* C8: whenever the server runs with an active match whose duration has
\* elapsed, the match eventually ends.
DurationExpiryEndsMatch ==
    (running /\ game_active /\ game_start_time = "expired") ~> ~game_active

\* C9: on every transition to Ended, a GAME_OVER and then a LEADERBOARD are
\* passed to _sr_send for every peer still connected, whatever the grid holds.
EndSendsGameOverThenLeaderboard ==
    \A p \in DOMAIN end_calls :
        end_calls[p] = <<MSG_TYPE_GAME_OVER, MSG_TYPE_LEADERBOARD>>

\* the match is over and its peers are still connected
Ended == ~game_active /\ DOMAIN clients # {}

\* the state a new match starts from
Waiting ==
    /\ ~game_active
    /\ grid_state = EmptyGrid
    /\ grid_claim_time = EmptyGrid
    /\ clients = EmptyMap
    /\ waiting_room_players = EmptyMap
    /\ client_windows = EmptyMap
    /\ running

\* C10: every match end, by whatever path, is eventually followed by a return
\* to Waiting: an all-unclaimed grid, no peer, no send window, game_active
\* false, the server still running.
MatchEndReturnsToWaiting == Ended ~> Waiting

\* the packet seq is in the send window of player p
InWindow(p, q) ==
    p \in DOMAIN client_windows /\ q \in DOMAIN client_windows[p]

\* a step leaves every packet that stays in a send window as it is
WindowsKeepPackets ==
    /\ \A p \in DOMAIN client_windows : \A q \in DOMAIN client_windows[p] :
           (p \in DOMAIN client_windows' /\ q \in DOMAIN client_windows'[p])
               => client_windows'[p][q] = client_windows[p][q]
    /\ \A q \in DOMAIN window :
           q \in DOMAIN window' => window'[q] = window[q]

KarnsRule == rtt_sampled \cap retransmitted_seqs = {}

\* the send window of player p is full: nextSeqNum >= base + N
WindowFull(p) ==
    /\ p \in DOMAIN client_next_seq
    /\ client_next_seq[p] >= client_base[p] + SrvN

\* C13, on the client: a _sr_send called with nextSeqNum >= base + N returns
\* False and leaves base, nextSeqNum, the window and the timers as they are.
ClientFailFast ==
    [][(nextSeqNum >= base + N /\ CSend)
          => /\ send_result' = "dropped"
             /\ UNCHANGED <<base, nextSeqNum, window, timers, send_timestamp>>]_vars

\* C13, on the server: a _sr_send called for a player whose window is full
\* (here the one _sr_send of the handler of a repeated JOIN_REQUEST) transmits
\* nothing and leaves the player's base, nextSeqNum, window and timers as they
\* are.
FailFastSend ==
    [][\A a \in Addrs, late \in Arq.late :
          LET p == AddrToPid(Server(FALSE), a)
          IN  \/ ~(p # 0 /\ WindowFull(p))
              \/ UNCHANGED <<client_base, client_next_seq, client_windows,
                             client_timers>>
              \/ ~Handled(Arq, HandleJoinReq(ServerOf(Arq, late), a), {})]_vars

\* C14: a packet leaves the send window of a player only in a step that
\* handles an acknowledgment for exactly its sequence number from that player,
\* or in a step that removes the player (the reset of the server included);
\* and the base never goes beyond a packet that is in the window.
OnlyAckOrRemovalDiscards ==
    [][\A p \in Addrs, q \in 0..MaxSeq :
          /\ (InWindow(p, q) /\ ~InWindow(p, q)')
                 => \/ p \notin (DOMAIN clients') \cup (DOMAIN waiting_room_players')
                    \/ \E a \in Addrs :
                           /\ AddrToPid(Server(FALSE), a) = p
                           /\ Handled(Arq, HandleAckMsg(ServerOf(Arq, FALSE), a, q), {})
          /\ InWindow(p, q)' => client_base'[p] <= q]_vars

\* the server has a player for address a, and a is the address of the client's
\* socket
Connected(a) == client_socket = a /\ AddrToPid(Server(FALSE), a) # 0

\* _sr_send has accepted a packet with sequence number q for the player at
\* address a
Accepted(a, q) ==
    LET p == AddrToPid(Server(FALSE), a)
    IN  p \in DOMAIN client_next_seq /\ q < client_next_seq[p]

\* C15: every packet that _sr_send accepted for a player who stays connected
\* is eventually handed to the _process_packet of that player's client, and
\* expected_seq eventually goes beyond its sequence number.
EndToEndDelivery ==
    \A a \in 1..MaxSockets, q \in 0..(MaxLinkSeq - 1) :
        (Connected(a) /\ Accepted(a, q))
            ~> (~Connected(a) \/ (<<a, q>> \in handed /\ expected_seq > q))

\* C16: while the game is active the dirty flag (grid_changed) is cleared only
\* by a step in which _sr_send accepted a packet, the snapshot, for every
\* active player.
DirtyClearedOnlyAfterSnapshot ==
    [][(game_active /\ game_active' /\ grid_changed /\ ~grid_changed')
           => \A p \in DOMAIN clients' :
                  /\ p \in DOMAIN client_next_seq'
                  /\ p \in DOMAIN client_next_seq
                         => client_next_seq'[p] > client_next_seq[p]]_vars

\* the snapshots that have been sent
SnapshotsSent == {d \in to_client : d.pkt.msg_type = MSG_TYPE_BOARD_SNAPSHOT}

\* snapshot_id does not decrease, and a snapshot sent for the first time has
\* an id greater than every snapshot sent to the same address before
SnapshotIdStep ==
    /\ snapshot_id' >= snapshot_id
    /\ \A d \in to_client' \ to_client :
           d.pkt.msg_type = MSG_TYPE_BOARD_SNAPSHOT
               => \A x \in SnapshotsSent :
                      x.addr = d.addr => d.pkt.snapshot_id > x.pkt.snapshot_id

\* C17: while the state is not reset, snapshot_id never decreases; every
\* snapshot that _sr_send accepts for a player has an id greater than every
\* snapshot sent to that player before; two snapshots sent with different
\* grids never have the same id.
SnapshotIdsIncrease ==
    /\ [][SnapshotIdStep]_vars
    /\ [](\A d \in SnapshotsSent, x \in SnapshotsSent :
              d.pkt.snapshot_id = x.pkt.snapshot_id => d.pkt.grid = x.pkt.grid)

\* two snapshots with different ids and grids have been sent to one player
TwoSnapshotsSent ==
    \E d \in SnapshotsSent, x \in SnapshotsSent :
        /\ d.addr = x.addr
        /\ d.pkt.snapshot_id < x.pkt.snapshot_id
        /\ d.pkt.grid # x.pkt.grid

\* C17 as stated, of every transmission: no snapshot is transmitted to a
\* player (here by _retransmit) after a snapshot with a greater id.
EveryTransmissionInIdOrder ==
    [][\A r \in resent' \ resent :
           r[3].msg_type = MSG_TYPE_BOARD_SNAPSHOT
               => \A x \in SnapshotsSent :
                      x.addr = AddrOf(Server(FALSE), r[1])
                          => x.pkt.snapshot_id <= r[3].snapshot_id]_vars

\* address a belongs to a player, active or in the waiting room
IsPeer(a) == AddrToPid(Server(FALSE), a) # 0

\* C18: a peer of the running server, active or in the waiting room, that
\* stays silent is eventually removed.
IdleTimeoutRemoves ==
    \A a \in Addrs : (running /\ IsPeer(a)) ~> ~IsPeer(a)

\* the same for the active players while _player_timeout_thread is alive
IdleTimeoutWhileThreadAlive ==
    \A a \in Addrs :
        (running /\ timeout_thread = "started"
                 /\ \E p \in DOMAIN clients : clients[p] = a)
            ~> ~IsPeer(a)

\* a step that removes an active player of an active game and leaves fewer
\* than min_players active players ends the game
DepartureEndsGame ==
    [][(/\ game_active
        /\ DOMAIN clients \ DOMAIN clients' # {}
        /\ Cardinality(DOMAIN clients') < min_players) => ~game_active']_vars

\* C19: while the game is active at least min_players players are active.
ActiveHasMinPlayers ==
    game_active => Cardinality(DOMAIN clients) >= min_players

\* the peers, windows, grid and session of the server, the client, and what
\* either has sent
sessionVars ==
    <<clientState, running, clients, waiting_room_players, client_windows,
      client_timers, client_next_seq, client_base, grid_state, grid_claim_time,
      game_active, grid_changed, should_send_snapshots, game_start_time,
      snapshot_id, final_scores, reset_pending, handled, applied, arqVars,
      threadVars>>

InvalidDatagrams ==
    {data \in ServerDatagrams \cup ClientDatagrams : Cause(data) # "none"}

\* a step in which the server or the client receives this datagram
Receives(data) ==
    \/ \E a \in OneAddr : SRecvDatagram(Wire, data, a)
    \/ CRecvDatagram(data)

\* C20: the receipt of a datagram that is shorter than the header or whose
\* checksum does not match changes nothing at the server or at the client
\* (no peer, window, grid or session state, nothing handed to
\* _process_packet) and sends nothing.
InvalidDatagramsDropped ==
    [][\/ UNCHANGED sessionVars
       \/ \A data \in InvalidDatagrams : ~Receives(data)]_vars

\* the server, with a player in a match, and the client, waiting for packet 1,
\* have each received a short datagram and one with a wrong checksum
InvalidDatagramsSeen ==
    /\ discarded = {"server", "client"} \X {"short", "checksum"}
    /\ game_active
    /\ expected_seq = 1

\* ------------------------------------------------------------------------
\* Acknowledgment of data packets: the server records the ACK packets it
\* sends with sendto, the packets of two endpoints carry the sequence numbers
\* 0..MaxRxSeq, a claim names a cell of the grid or a row outside it, and an
\* endpoint may claim or leave before it has joined. The client side is the
\* receive loop of one client. The two sides are followed one at a time.
\* ------------------------------------------------------------------------
Ack ==
    [addrs |-> Addrs, coords |-> {<<0, 0>>, <<20, 0>>}, ts |-> 1..MaxTs, acks |-> {},
     late |-> {FALSE}, in_turn |-> FALSE, record |-> FALSE,
     snapshots |-> MaxSnapshot, detail |-> FALSE, room |-> 0, wire |-> FALSE,
     seqs |-> MaxSeq, rx |-> 0..MaxRxSeq, acklog |-> TRUE]

NextAck ==
    \/ /\ client_socket = 0
       /\ \/ ServerStart
          \/ SRecvJoin(Ack)
          \/ SRecvClaim(Ack)
          \/ SRecvLeave(Ack)
          \/ SRecvNone
          \/ SLoopTail(Ack)
    \/ /\ ~running
       /\ \/ CConnect
          \/ CRecvData

SpecAck == Init /\ [][NextAck]_vars

\* the inputs of Ack narrowed to the packets of endpoint a with sequence
\* number q
AckFrom(a, q) == [Ack EXCEPT !.addrs = {a}, !.rx = {q}]

\* the ACK datagram for sequence number q is among those sent to endpoint a
AckSent(a, q) == [addr |-> a, pkt |-> create_ack_packet(q)] \in to_client'

\* every JOIN_REQUEST handled is acknowledged
JoinAcked ==
    \A a \in Addrs, q \in 0..MaxRxSeq : AckSent(a, q) \/ ~SRecvJoin(AckFrom(a, q))

\* every CLAIM_REQUEST handled is acknowledged: accepted, outdated, out of
\* range or from an endpoint that is not connected
ClaimAcked ==
    \A a \in Addrs, q \in 0..MaxRxSeq : AckSent(a, q) \/ ~SRecvClaim(AckFrom(a, q))

\* every LEAVE handled is acknowledged
LeaveAcked ==
    \A a \in Addrs, q \in 0..MaxRxSeq : AckSent(a, q) \/ ~SRecvLeave(AckFrom(a, q))

\* the client acknowledges every packet other than an ACK that it handles,
\* duplicates included
ClientAcked ==
    \A q \in 0..MaxRecvSeq, t \in RecvTypes :
        \/ Datagram(Client, create_ack_packet(q)) \in to_server'
        \/ ~(/\ client_socket # 0
             /\ SetClient(ClientReceive(Client, Packet(t, q, 0)))
             /\ UNCHANGED serverVars)

\* the acknowledgments that the code does send
AcksOfClaimLeaveAndClient == [][ClaimAcked /\ LeaveAcked /\ ClientAcked]_vars

\* C21: every data packet with sequence number seq that a receiver handles
\* is answered with an ACK carrying seq: on the server JOIN_REQUEST,
\* CLAIM_REQUEST and LEAVE, on the client every packet other than an ACK.
UnconditionalAck == [][JoinAcked /\ ClaimAcked /\ LeaveAcked /\ ClientAcked]_vars

\* ------------------------------------------------------------------------
\* Retransmitted claims. An endpoint numbers its JOIN_REQUEST and its LEAVE 0
\* and its claims 1..MaxDupSeq; the claim numbered q names ProbeCell and
\* carries the timestamp q, and _retransmit of the client sends the stored
\* bytes again, timestamp included. Endpoint 1 stays connected once it has
\* joined; the other endpoints may leave.
\* ------------------------------------------------------------------------
DupAddrs == 1..NumDupAddrs

Dup ==
    [addrs |-> DupAddrs, coords |-> OneCoord, ts |-> {}, acks |-> {},
     late |-> {FALSE}, in_turn |-> FALSE, record |-> FALSE,
     snapshots |-> MaxSnapshot, detail |-> FALSE, room |-> 0, wire |-> FALSE,
     seqs |-> MaxSeq, rx |-> {0}, acklog |-> TRUE]

\* the claim numbered q of endpoint a, sent for the first time or again
ClaimPacket(a, q) ==
    Handled(Dup, HandleClaimReq(ServerRx(Dup, FALSE, q), a,
                                ProbeCell[1], ProbeCell[2], 0, q), {})

SRecvClaimPacket == \E a \in DupAddrs, q \in 1..MaxDupSeq : ClaimPacket(a, q)

NextDup ==
    \/ ServerStart
    \/ SRecvJoin(Dup)
    \/ SRecvClaimPacket
    \/ SRecvLeave([Dup EXCEPT !.addrs = DupAddrs \ {1}])
    \/ SRecvNone
    \/ SLoopTail(Dup)

SpecDup == Init /\ [][NextDup]_vars

\* the claim numbered q of endpoint a has been applied
Duplicate(a, q) == <<a, q>> \in applied

\* C22: a retransmitted client packet (same sequence number, same peer) is
\* only acknowledged and never applied again: handling a claim of endpoint 1
\* that was applied before changes neither the owner nor the claim time of
\* a cell.
NoRedelivery ==
    [][\/ UNCHANGED <<grid_state, grid_claim_time>>
       \/ \A q \in 1..MaxDupSeq : ~(Duplicate(1, q) /\ ClaimPacket(1, q))]_vars

\* ------------------------------------------------------------------------
\* Claims outside a match
\* ------------------------------------------------------------------------
\* endpoint a is a peer of the waiting room
InWaitingRoom(a) == \E p \in DOMAIN waiting_room_players : waiting_room_players[p] = a

\* the server handles a CLAIM_REQUEST of endpoint a while no match is active
\* or while a is in the waiting room
InactiveClaim(sc, a) ==
    /\ ~game_active \/ InWaitingRoom(a)
    /\ SRecvClaim([sc EXCEPT !.addrs = {a}])

\* C23: claims are applied only in the Active phase and only for active
\* peers: a CLAIM_REQUEST handled while game_active is false, or sent by a
\* peer of the waiting room, changes neither grid_state nor grid_claim_time.
ClaimsOnlyWhenActive ==
    [][\/ UNCHANGED <<grid_state, grid_claim_time>>
       \/ \A a \in Addrs : ~InactiveClaim(Session, a)]_vars

\* ------------------------------------------------------------------------
\* Player ids
\* ------------------------------------------------------------------------
\* the ids of the connected peers, active or waiting
ConnectedPids == (DOMAIN clients) \cup DOMAIN waiting_room_players

\* no id is in the active set and in the waiting room
PidsDisjoint == (DOMAIN clients) \cap (DOMAIN waiting_room_players) = {}

\* no two connected peers share an endpoint, hence each peer has one id
OnePidPerPeer ==
    /\ \A p, r \in DOMAIN clients : clients[p] = clients[r] => p = r
    /\ \A p, r \in DOMAIN waiting_room_players :
           waiting_room_players[p] = waiting_room_players[r] => p = r
    /\ \A p \in DOMAIN clients, r \in DOMAIN waiting_room_players :
           clients[p] # waiting_room_players[r]

\* a step connects at most one peer, and its id is the smallest positive
\* integer that no connected peer used
SmallestFreePid ==
    \A p \in ConnectedPids' \ ConnectedPids :
        /\ p >= 1
        /\ \A k \in 1..(p - 1) : k \in ConnectedPids
        /\ ConnectedPids' \ ConnectedPids = {p}

\* C24: a joining peer gets the smallest positive integer not used by any
\* connected peer, active or waiting; no two connected peers share an id and
\* no id is in the active set and in the waiting room at once.
PlayerIdAssignment == [](PidsDisjoint /\ OnePidPerPeer) /\ [][SmallestFreePid]_vars

\* four players are active and a fifth peer waits
ActiveAndWaitingPids ==
    /\ Cardinality(DOMAIN clients) = MaxActive
    /\ DOMAIN waiting_room_players # {}

\* ------------------------------------------------------------------------
\* The end of a match: the endpoints join and claim the two cells with the
\* timestamps 1..MaxMatchTs, the match lasts until the game timer finds the
\* duration elapsed or until a player leaves.
\* ------------------------------------------------------------------------
Match ==
    [addrs |-> Addrs, coords |-> Cells, ts |-> 1..MaxMatchTs, acks |-> {},
     late |-> {FALSE}, in_turn |-> FALSE, record |-> FALSE,
     snapshots |-> MaxSnapshot, detail |-> FALSE, room |-> 0, wire |-> FALSE,
     seqs |-> MaxSeq, rx |-> {0}, acklog |-> FALSE]

NextMatch ==
    \/ ServerStart
    \/ SRecvJoin(Match)
    \/ SRecvClaim(Match)
    \/ SRecvLeave(Match)
    \/ SRecvNone
    \/ SLoopTail(Match)
    \/ DurationElapses
    \/ GameTimerExpire(Match)

SpecMatch == Init /\ [][NextMatch]_vars

\* C25: the leaderboard is ordered by owned cells, descending, and players
\* with equally many cells are ordered by ascending player id, whatever the
\* final grid.
LeaderboardOrdered ==
    \A i, j \in 1..Len(final_scores) :
        i < j => \/ final_scores[i][2] > final_scores[j][2]
                 \/ /\ final_scores[i][2] = final_scores[j][2]
                    /\ final_scores[i][1] < final_scores[j][1]

\* the part that holds: no entry has more cells than an entry before it
LeaderboardDescending ==
    \A i, j \in 1..Len(final_scores) : i < j => final_scores[i][2] >= final_scores[j][2]

\* the players on the leaderboard computed at the end of the match
Listed == {final_scores[i][1] : i \in 1..Len(final_scores)}

\* C26: when a match ends, every player connected at that moment is on the
\* leaderboard, a player that owns no cell included (A and B join, B ends
\* up owning the only claimed cell: the leaderboard lists B with 1 cell and
\* then A with 0).
EveryPlayerListed == \A p \in DOMAIN end_calls : p \in Listed

\* the players that own a cell at the end of the match are listed
OwnersListed ==
    \A p \in DOMAIN end_calls : (\E cell \in Cells : grid_state[cell] = p) => p \in Listed

\* the scenario of the claim: player 1 claimed ProbeCell, an older claim of
\* player 2 was rejected and a newer one accepted, and the match has ended
\* with both connected
ScenarioEnded ==
    /\ DOMAIN end_calls = {1, 2}
    /\ grid_state[ProbeCell] = 2
    /\ grid_claim_time[ProbeCell] = MaxMatchTs
    /\ \A cell \in Cells \ {ProbeCell} : grid_state[cell] = 0

\* ------------------------------------------------------------------------
\* The grid at the start of a match
\* ------------------------------------------------------------------------
\* C27: a new match starts from a fresh grid: whenever game_active becomes
\* true, every cell is unclaimed and every claim time is 0, also when the
\* JOIN_REQUEST that starts the match arrives after a match has ended and
\* before the reset.
NewMatchFreshGrid ==
    [][(~game_active /\ game_active') =>
           (grid_state' = EmptyGrid /\ grid_claim_time' = EmptyGrid)]_vars

\* ------------------------------------------------------------------------
\* Threads. The server takes no lock: _server_loop, _game_timer_thread,
\* _player_timeout_thread and the callbacks of the GUI thread read and write
\* the same fields. _end_game_with_scores sleeps twice while it runs
\* (time.sleep(0.5) after the GAME_OVER loop, time.sleep(1) after the
\* LEADERBOARD loop); here the game timer thread runs it in two steps, split at
\* the first sleep, and the other threads take their steps in between.
\* ------------------------------------------------------------------------
\* _end_game_with_scores up to time.sleep(0.5)
EndGameOver(s0) ==
    LET s1 == [s0 EXCEPT !.game_active = FALSE, !.should_send_snapshots = FALSE]
    IN  Once(SendEach(s1, DOMAIN s1.clients, MSG_TYPE_GAME_OVER), LAMBDA s2 :
            [s2 EXCEPT !.end_calls = [p \in DOMAIN s1.clients |-> <<MSG_TYPE_GAME_OVER>>]])

\* _end_game_with_scores after time.sleep(0.5), then "self.game_start_time =
\* None" of _game_timer_thread
EndGameScores(s0) ==
    LET pids == DOMAIN s0.clients
        s1 == [s0 EXCEPT !.final_scores = calculate_scores_from_grid(s0.grid_state)]
    IN  IF PackLeaderboardRaises(s1.final_scores)
        THEN [s1 EXCEPT !.raised = TRUE]
        ELSE [SendEach(s1, pids, MSG_TYPE_LEADERBOARD) EXCEPT
                 !.end_calls = [p \in pids |-> <<MSG_TYPE_LEADERBOARD>>],
                 !.reset_pending = @ + 1,
                 !.game_start_time = "None"]

Threads ==
    [addrs |-> Addrs, coords |-> OneCoord, ts |-> {1}, acks |-> {},
     late |-> {FALSE}, in_turn |-> FALSE, record |-> FALSE,
     snapshots |-> MaxSnapshot, detail |-> FALSE, room |-> 0, wire |-> FALSE,
     seqs |-> MaxSeq, rx |-> {0}, acklog |-> FALSE]

\* _game_timer_thread: elapsed >= self.game_duration, _end_game_with_scores
\* runs up to its first sleep
TimerEndBegin(sc) ==
    /\ timer_thread = "started"
    /\ running
    /\ game_active
    /\ game_start_time = "expired"
    /\ \E s \in {EndGameOver(ServerOf(sc, FALSE))} : Bounded(sc, s) /\ SetServer(s, {})
    /\ timer_thread' = "ending"
    /\ UNCHANGED <<loop_pc, timeout_thread, clientVars>>

\* _game_timer_thread wakes up inside _end_game_with_scores
TimerEndFinish(sc) ==
    /\ timer_thread = "ending"
    /\ \E s \in {EndGameScores(ServerOf(sc, FALSE))} :
           /\ Bounded(sc, s)
           /\ SetServer(Caught(s), {})
           /\ timer_thread' = IF s.raised THEN "dead" ELSE "started"
    /\ UNCHANGED <<loop_pc, timeout_thread, clientVars>>

NextThreads ==
    \/ ServerStart
    \/ SRecvJoin(Threads)
    \/ SRecvClaim(Threads)
    \/ SRecvLeave(Threads)
    \/ SRecvNone
    \/ SLoopTail(Threads)
    \/ DurationElapses
    \/ TimerEndBegin(Threads)
    \/ TimerEndFinish(Threads)
    \/ PlayerTimeout(Threads)
    \/ ResetCallback(Threads)

SpecThreads == Init /\ [][NextThreads]_vars

\* the grid, the peer sets, the send windows and the phase of the session
sharedVars ==
    <<grid_state, grid_claim_time, clients, waiting_room_players, client_windows,
      client_next_seq, client_base, game_active>>

\* C28: every mutation of the grid, the peer sets, the send windows and the
\* session phase is serialized: while the game timer thread is inside
\* _end_game_with_scores, no step of another thread (server loop, player
\* timeout thread, callback of the GUI thread) changes that state.
SingleWriter ==
    [][timer_thread = "ending" => (timer_thread' # "ending" \/ UNCHANGED sharedVars)]_vars

\* ------------------------------------------------------------------------
\* The codec on bytes. A packet is the sequence of its bytes; struct.pack and
\* struct.unpack with "!" are big-endian without padding. The numbers of the
\* model stay below 2^31, so the top bit of the 32-bit fields and the upper
\* half of the 64-bit timestamp are always 0.
\* ------------------------------------------------------------------------
\* struct.pack of an unsigned integer into width bytes
RECURSIVE BytesOf(_, _)
BytesOf(n, width) ==
    IF width = 0 THEN <<>> ELSE BytesOf(n \div 256, width - 1) \o <<n % 256>>

\* an unpack that reads the bytes in the opposite order
RECURSIVE NumOfReversed(_)
NumOfReversed(bytes) ==
    IF bytes = <<>> THEN 0 ELSE NumOfReversed(Tail(bytes)) * 256 + Head(bytes)

\* struct.unpack of an unsigned integer
RECURSIVE NumOf(_)
NumOf(bytes) ==
    IF bytes = <<>> THEN 0
    ELSE NumOf(SubSeq(bytes, 1, Len(bytes) - 1)) * 256 + bytes[Len(bytes)]

\* PROTOCOL_ID = b'GSSP'
ProtocolTag == <<71, 83, 83, 80>>

\* struct.pack(HEADER_FORMAT, ...) with HEADER_FORMAT = "!4s B B H H I I Q H"
PackHeader(h) ==
    h.protocol_id \o BytesOf(h.version, 1) \o BytesOf(h.msg_type, 1)
        \o BytesOf(h.length, 2) \o BytesOf(h.snapshot_id, 2)
        \o BytesOf(h.seq_num, 4) \o BytesOf(h.ack_num, 4)
        \o BytesOf(h.timestamp, 8) \o BytesOf(h.received_checksum, 2)

\* struct.unpack(HEADER_FORMAT, data[:HEADER_SIZE])
UnpackHeader(data) ==
    [protocol_id |-> SubSeq(data, 1, 4), version |-> data[5], msg_type |-> data[6],
     length |-> NumOf(SubSeq(data, 7, 8)), snapshot_id |-> NumOf(SubSeq(data, 9, 10)),
     seq_num |-> NumOf(SubSeq(data, 11, 14)), ack_num |-> NumOf(SubSeq(data, 15, 18)),
     timestamp |-> NumOf(SubSeq(data, 19, 26)),
     received_checksum |-> NumOf(SubSeq(data, 27, 28))]

\* compute_checksum on bytes: a zero byte appended to an odd length, then
\* the 16-bit words
WordsOf(data) ==
    LET padded == IF Len(data) % 2 = 1 THEN data \o <<0>> ELSE data
    IN  [i \in 1..(Len(padded) \div 2) |-> padded[2 * i - 1] * 256 + padded[2 * i]]

\* create_packet; timestamp is int(time.time() * 1000) at the call
CreatePacket(msg_type, seq_num, payload, snapshot, ack_num, timestamp) ==
    LET fields == [protocol_id |-> ProtocolTag, version |-> VERSION,
                   msg_type |-> msg_type, length |-> Len(payload),
                   snapshot_id |-> snapshot, seq_num |-> seq_num,
                   ack_num |-> ack_num, timestamp |-> timestamp,
                   received_checksum |-> 0]
        header_no_checksum == PackHeader(fields)
        checksum == compute_checksum(WordsOf(header_no_checksum \o payload))
    IN  PackHeader([fields EXCEPT !.received_checksum = checksum]) \o payload

\* bytes.decode() of bytes that are not UTF-8 raises UnicodeDecodeError
RECURSIVE ValidUtf8(_)
ValidUtf8(b) ==
    IF b = <<>> THEN TRUE
    ELSE LET h == Head(b)
             n == Len(b)
             Cont(i) == i <= n /\ b[i] \in 128..191
         IN  IF h <= 127 THEN ValidUtf8(Tail(b))
             ELSE IF h \in 194..223 THEN Cont(2) /\ ValidUtf8(SubSeq(b, 3, n))
             ELSE IF h \in 224..239
             THEN /\ Cont(2) /\ Cont(3)
                  /\ (h = 224 => b[2] >= 160)
                  /\ (h = 237 => b[2] <= 159)
                  /\ ValidUtf8(SubSeq(b, 4, n))
             ELSE IF h \in 240..244
             THEN /\ Cont(2) /\ Cont(3) /\ Cont(4)
                  /\ (h = 240 => b[2] >= 144)
                  /\ (h = 244 => b[2] <= 143)
                  /\ ValidUtf8(SubSeq(b, 5, n))
             ELSE FALSE

\* parse_packet on bytes. none: (None, None, False) was returned; raised: the
\* call raised instead of returning.
ParsePacket(data) ==
    IF Len(data) < HEADER_SIZE THEN NoCodec.result
    ELSE LET unpacked == UnpackHeader(data)
             header_no_checksum == PackHeader([unpacked EXCEPT !.received_checksum = 0])
             payload == SubSeq(data, HEADER_SIZE + 1, Len(data))
             calculated_checksum == compute_checksum(WordsOf(header_no_checksum \o payload))
             valid == unpacked.received_checksum = calculated_checksum
         IN  IF ~ValidUtf8(unpacked.protocol_id)
             THEN [NoCodec.result EXCEPT !.raised = TRUE, !.none = FALSE]
             ELSE [raised |-> FALSE, none |-> FALSE, header |-> unpacked,
                   payload |-> payload, valid |-> valid]

\* the largest value of a 32-bit field in the model
Wide == 32767 * 65536 + 65535

\* the arguments of create_packet
CodecTypes == {MSG_TYPE_JOIN_REQ, MSG_TYPE_CLAIM_REQ, MSG_TYPE_LEADERBOARD}
CodecSeqs == {0, 1, Wide}
CodecAcks == {0, 65536}
CodecSnapshots == {0, 65535}
CodecTimestamps == {0, Wide}
\* no payload, one byte, a claim of cell (5, 7) with ack_num 0, one with
\* ack_num 3
CodecPayloads == {<<>>, <<5>>, <<5, 7, 0, 0>>, <<5, 7, 0, 3>>}

Packets ==
    {[sent |-> [protocol_id |-> ProtocolTag, version |-> VERSION, msg_type |-> m,
                length |-> Len(p), snapshot_id |-> sid, seq_num |-> q, ack_num |-> a,
                timestamp |-> t, received_checksum |-> 0],
      payload |-> p] :
        m \in CodecTypes, q \in CodecSeqs, p \in CodecPayloads,
        sid \in CodecSnapshots, a \in CodecAcks, t \in CodecTimestamps}

BytesOfPacket(pkt) ==
    CreatePacket(pkt.sent.msg_type, pkt.sent.seq_num, pkt.payload,
                 pkt.sent.snapshot_id, pkt.sent.ack_num, pkt.sent.timestamp)

\* data is handed to parse_packet
Decode(kind, pkt, data) ==
    /\ codec' = [kind |-> kind, sent |-> pkt.sent, payload |-> pkt.payload,
                 data |-> data, result |-> ParsePacket(data)]
    /\ UNCHANGED <<clientState, discarded, serverVars>>

\* a packet arrives as create_packet made it
DecodeCreated == \E pkt \in Packets : Decode("created", pkt, BytesOfPacket(pkt))

\* only the first n bytes of a packet arrive
DecodeTruncated ==
    \E pkt \in Packets :
        \E data \in {BytesOfPacket(pkt)} : \E n \in 0..(Len(data) - 1) :
            Decode("truncated", pkt, SubSeq(data, 1, n))

\* the bytes a corrupted byte may become
CorruptBytes == {0, 65, 199, 255}

\* the bytes of the wide fields that are 0 in every packet of the model stay
\* 0, and the top byte of seq_num and ack_num stays below 128
Representable(i, v) ==
    /\ i \in 19..22 => v = 0
    /\ i \in {11, 15, 23} => v <= 127

\* one byte of the protocol tag, of the rest of the header or of the payload
\* arrives changed
DecodeCorrupted ==
    \E pkt \in Packets :
        \E data \in {BytesOfPacket(pkt)} : \E i \in 1..Len(data), v \in CorruptBytes :
            /\ v # data[i]
            /\ Representable(i, v)
            /\ Decode("corrupted", pkt, [data EXCEPT ![i] = v])

\* the bytes of seq_num and of ack_num arrive exchanged
DecodeSwapped ==
    \E pkt \in Packets :
        \E data \in {BytesOfPacket(pkt)} :
            /\ pkt.sent.seq_num # pkt.sent.ack_num
            /\ Decode("swapped", pkt,
                      SubSeq(data, 1, 10) \o SubSeq(data, 15, 18) \o SubSeq(data, 11, 14)
                          \o SubSeq(data, 19, Len(data)))

\* one call of parse_packet is followed
NextCodec ==
    /\ codec.kind = "none"
    /\ \/ DecodeCreated
       \/ DecodeTruncated
       \/ DecodeCorrupted
       \/ DecodeSwapped

SpecCodec == Init /\ [][NextCodec]_vars

\* C29: parse_packet(create_packet(msg_type, seq_num, payload, snapshot_id,
\* ack_num)) returns the same msg_type, snapshot_id, seq_num, ack_num and
\* payload, length = len(payload) and valid = true, for all values within
\* the field widths.
CodecRoundTrip ==
    codec.kind = "created" =>
        /\ ~codec.result.raised
        /\ ~codec.result.none
        /\ codec.result.valid
        /\ codec.result.header.msg_type = codec.sent.msg_type
        /\ codec.result.header.length = Len(codec.payload)
        /\ codec.result.header.snapshot_id = codec.sent.snapshot_id
        /\ codec.result.header.seq_num = codec.sent.seq_num
        /\ codec.result.header.ack_num = codec.sent.ack_num
        /\ codec.result.payload = codec.payload

\* a packet with a payload and the largest sequence number has made the
\* round trip
WidePacketDecoded ==
    /\ codec.kind = "created"
    /\ codec.sent.seq_num = Wide
    /\ codec.sent.snapshot_id = 65535
    /\ Len(codec.payload) = 4

\* parse_packet does not raise
DecodeNeverRaises == ~codec.result.raised

\* a truncated packet is not valid
TruncatedInvalid == codec.kind = "truncated" => ~codec.result.valid

\* a packet with a byte changed or with two fields exchanged is not valid
CorruptedInvalid == codec.kind \in {"corrupted", "swapped"} => ~codec.result.valid

\* a packet cut inside its header is answered with (None, None, False), and
\* a packet with one byte changed that does not raise is not valid
ShortOrOneByteInvalid ==
    /\ Len(codec.data) < HEADER_SIZE => (codec.result.none /\ ~codec.result.valid)
    /\ (codec.kind = "corrupted" /\ ~codec.result.raised) => ~codec.result.valid

\* C30: decoding fails closed: for every truncated packet and every packet
\* with a corrupted protocol tag, header or payload, parse_packet returns
\* valid = false, and it never raises.
DecodeFailsClosed == DecodeNeverRaises /\ TruncatedInvalid /\ CorruptedInvalid

\* ------------------------------------------------------------------------
\* ACKs for sequence numbers outside the send window
\* ------------------------------------------------------------------------
\* the sender state of the client: base, nextSeqNum, the window, the timers
\* and what feeds the RTT estimator
senderVars == <<base, nextSeqNum, window, timers, send_timestamp, rtt_sampled>>

\* _receive_loop hands to _handle_ack the ACK for sequence number a
ClientAckStep(a) ==
    /\ client_socket # 0
    /\ SetClient(ClientReceive(Client, Packet(MSG_TYPE_ACK, 0, a)))
    /\ UNCHANGED serverVars

\* C31: an ACK for a sequence number that is not in the send window is
\* ignored: handling it leaves base, nextSeqNum, the window, the timers and
\* the RTT estimator unchanged (client side).
AckOutsideWindowIgnored ==
    [][\/ UNCHANGED senderVars
       \/ \A a \in 0..MaxAckNum : ~(a \notin DOMAIN window /\ ClientAckStep(a))]_vars

\* the same on the server: an ACK of a player for a sequence number that is
\* not in that player's window changes no window, timer, base or next
\* sequence number
ServerAckOutsideWindowIgnored ==
    [][\/ UNCHANGED <<client_windows, client_timers, client_base, client_next_seq>>
       \/ \A a \in Arq.addrs, k \in Arq.acks :
              LET p == AddrToPid(Server(FALSE), a)
              IN  ~(/\ p # 0
                    /\ p \in DOMAIN client_windows
                    /\ k \notin DOMAIN client_windows[p]
                    /\ Handled(Arq, HandleAckMsg(ServerOf(Arq, FALSE), a, k), {}))]_vars

\* ------------------------------------------------------------------------
\* The base of the client's send window
\* ------------------------------------------------------------------------
\* no packet of the window lies below base
WindowAtOrAboveBase == \A s \in DOMAIN window : s >= base

\* C32: base slides only over acknowledged sequence numbers: every sequence
\* number still in the window is >= base, and base is the smallest
\* unacknowledged sequence number whenever the window is not empty.
BaseIsSmallestUnacked ==
    /\ WindowAtOrAboveBase
    /\ DOMAIN window # {} => base = Min(DOMAIN window)

\* ------------------------------------------------------------------------
\* The client's receive buffer: snapshots numbered 0..MaxBufSeq arrive in
\* any order, any number of times
\* ------------------------------------------------------------------------
CRecvSnapshot ==
    \E s \in 0..MaxBufSeq :
        /\ client_socket # 0
        /\ \E c \in {ClientReceive(Client, Packet(MSG_TYPE_BOARD_SNAPSHOT, s, 0))} :
               SetClient(c)
        /\ UNCHANGED serverVars

NextBuffer == CConnect \/ CRecvSnapshot

SpecBuffer == Init /\ [][NextBuffer]_vars

\* C33: the out-of-order receive buffer of the client is bounded by the
\* window size: receive_buffer never holds more than N entries.
ReceiveBufferBounded == Cardinality(DOMAIN receive_buffer) <= N

\* what does hold: only packets above expected_seq are buffered
BufferAboveExpected == \A s \in DOMAIN receive_buffer : s > expected_seq

\* ------------------------------------------------------------------------
\* Payloads: JOIN_RESPONSE and BOARD_SNAPSHOT packets arrive with payloads
\* of several sizes (1 byte is a player id, 204 bytes a snapshot id and a
\* grid)
\* ------------------------------------------------------------------------
PayloadSizes == {0, 1, 203, 204}

PayloadPacket(t, s, z) ==
    [msg_type |-> t, seq_num |-> s, ack_num |-> 0, payload_size |-> z]

CRecvPayloadPacket(t, s, z) ==
    /\ client_socket # 0
    /\ \E c \in {ClientReceive(Client, PayloadPacket(t, s, z))} : SetClient(c)
    /\ UNCHANGED serverVars

CRecvPayload ==
    \E t \in RecvTypes, s \in 0..MaxPaySeq, z \in PayloadSizes :
        CRecvPayloadPacket(t, s, z)

NextPayload == CConnect \/ CRecvPayload

SpecPayload == Init /\ [][NextPayload]_vars

\* C34: a checksum-valid packet with seq = expected_seq whose payload is
\* malformed for its type is dropped and expected_seq still advances, so
\* that the later packets are still delivered.
MalformedPacketSkipped ==
    [][\/ expected_seq' > expected_seq
       \/ \A t \in RecvTypes, s \in 0..MaxPaySeq, z \in PayloadSizes :
              ~(/\ s = expected_seq
                /\ PayloadRaises(PayloadPacket(t, s, z))
                /\ CRecvPayloadPacket(t, s, z))]_vars

\* what does hold: the malformed packet does not close the socket
MalformedKeepsConnection ==
    [][\/ client_socket' = client_socket
       \/ \A t \in RecvTypes, s \in 0..MaxPaySeq, z \in PayloadSizes :
              ~(/\ PayloadRaises(PayloadPacket(t, s, z))
                /\ CRecvPayloadPacket(t, s, z))]_vars

\* ------------------------------------------------------------------------
\* Departure: what the server still sends once a player is removed
\* ------------------------------------------------------------------------
\* the endpoints of the peers in the active set and in the waiting room
ConnectedAddrs ==
    {clients[p] : p \in DOMAIN clients}
        \cup {waiting_room_players[p] : p \in DOMAIN waiting_room_players}

\* the players with a send window, a timer table, a base or a next sequence
\* number
WindowOwners ==
    DOMAIN client_windows \cup DOMAIN client_timers
        \cup DOMAIN client_base \cup DOMAIN client_next_seq

\* the server as it is, keeping the datagrams of the step in out, with every
\* timer RTO or more in the past
ServerAllDue ==
    [Server(FALSE) EXCEPT !.wire = TRUE, !.due = TimerKeys(Server(FALSE))]

\* the endpoints that a step sends a datagram to
Recipients(s) == {d.addr : d \in s.out}

CTimerWhile ==
    /\ timer_loop.pc = "while"
    /\ SetClient(TimerLoopWhile(Client))
    /\ UNCHANGED serverVars

CTimerFor ==
    \E is_due \in BOOLEAN :
        /\ timer_loop.pc = "for"
        /\ timer_loop.keys # {}
        /\ SetClient(TimerLoopFor(Client, is_due))
        /\ UNCHANGED serverVars

\* the for loop over an empty list
CTimerSleep ==
    /\ timer_loop.pc = "for"
    /\ timer_loop.keys = {}
    /\ SetClient([Client EXCEPT !.timer_loop = [pc |-> "while", keys |-> {}]])
    /\ UNCHANGED serverVars

CSendFew ==
    /\ nextSeqNum < MaxTimerSeq
    /\ CSend

CRecvAckFew == \E a \in 0..(MaxTimerSeq - 1) : ClientAckStep(a)

NextTimer ==
    \/ CConnect
    \/ CSendFew
    \/ CRecvAckFew
    \/ CTimerWhile
    \/ CTimerFor
    \/ CTimerSleep

SpecTimer == Init /\ [][NextTimer]_vars

\* C36: for every interleaving of the timer thread with the receive thread
\* that handles acknowledgments, the timer thread keeps running while the
\* client is connected (running is true).
TimerLoopSurvives == client_socket # 0 => timer_loop.pc # "dead"

\* what does hold: only the handling of an acknowledgment takes the timer of
\* a key that the scan has still to visit
ScanKeysHaveTimers ==
    [][\/ ~(timer_loop.keys \subseteq timers)
       \/ timer_loop'.keys \subseteq timers'
       \/ \E a \in 0..(MaxTimerSeq - 1) : ClientAckStep(a)]_vars

\* ------------------------------------------------------------------------
\* Reconnection: the link with a network and a server that do their part.
\* The JOIN_REQUEST of the client's socket reaches the server once, the LEAVE
\* of a socket closed reaches it, the server loop goes on, and every packet
\* sent to the address of the client's socket arrives there.
\* ------------------------------------------------------------------------
LRecvJoinLive ==
    /\ client_socket \in Senders(MSG_TYPE_JOIN_REQ)
    /\ AddrToPid(Server(FALSE), client_socket) = 0
    /\ SRecvJoin(Link({client_socket}, {}))

NextReconnect ==
    \/ ServerStart
    \/ CConnect
    \/ CDisconnect
    \/ LRecvJoinLive
    \/ LRecvLeave
    \/ SLoopTail(Link({}, {}))
    \/ \E a \in 1..MaxSockets, q \in 0..(MaxLinkSeq - 1) : LRecvData(a, q)

SpecReconnect ==
    /\ Init
    /\ [][NextReconnect]_vars
    /\ WF_vars(ServerStart)
    /\ WF_vars(SLoopTail(Link({}, {})))
    /\ WF_vars(LRecvJoinLive)
    /\ WF_vars(LRecvLeave)
    /\ \A a \in 1..MaxSockets, q \in 0..(MaxLinkSeq - 1) : WF_vars(LRecvData(a, q))

\* the client has processed the JOIN_RESPONSE (packet 0 of the server's window
\* for its endpoint) on its first socket: it was joined
JoinedOnce == <<1, 0>> \in handed

\* the client, joined before, has disconnected and connected again
Reconnected == JoinedOnce /\ client_socket = 2

\* C37: after a joined client disconnects and connects again, the
\* JOIN_RESPONSE of the server (packet 0 of the fresh window) is eventually
\* processed, so that player_id is set again (as long as the client stays
\* connected).
ReconnectJoins == Reconnected ~> (<<2, 0>> \in handed \/ client_socket # 2)

\* the fairness is enough for the first connection: the JOIN_RESPONSE is
\* processed on the first socket
FirstJoinProcessed == (client_socket = 1) ~> (JoinedOnce \/ client_socket # 1)

\* the other half: the JOIN_REQUEST of the second connection is eventually
\* acknowledged (it leaves the window)
ReconnectAcked ==
    Reconnected ~>
        \/ \A s \in DOMAIN window : window[s].msg_type # MSG_TYPE_JOIN_REQ
        \/ client_socket # 2

\* what does hold: the client never processes packet 0 on both sockets
NeverJoinedTwice == ~(<<1, 0>> \in handed /\ <<2, 0>> \in handed)

\* the server has answered the second JOIN_REQUEST
SecondJoinAnswered ==
    /\ Reconnected
    /\ \E d \in to_client : d.addr = 2 /\ d.pkt.seq_num = 0
                              /\ d.pkt.msg_type = MSG_TYPE_JOIN_RESP

\* C38: every claimed cell has a connected owner: each non-zero entry of
\* grid_state is the player id of a peer in the active set or in the waiting
\* room.
ClaimedCellsHaveOwner ==
    \A cell \in Cells : grid_state[cell] # 0 => Known(Server(FALSE), grid_state[cell])

\* what does hold: every claimed cell has an owner among the active players
\* as long as no peer of the waiting room has claimed
OwnersOfActiveClaims ==
    [][\/ \A cell \in Cells : grid_state'[cell] # 0 => grid_state'[cell] \in DOMAIN clients'
       \/ \E cell \in Cells : grid_state[cell] # 0 /\ grid_state[cell] \notin DOMAIN clients
       \/ \E cell \in Cells : grid_state'[cell] \in DOMAIN waiting_room_players']_vars

\* C39: a reset never hits a running match: the callback that clears the peer
\* sets, the windows and the grid runs only while game_active is false.
ResetOnlyWhenInactive ==
    [][~game_active \/ ~ResetCallback(Live)]_vars

\* what does hold: when the reset is scheduled the match is over
ScheduledWhenInactive ==
    [][reset_pending' > reset_pending => ~game_active']_vars

\* ------------------------------------------------------------------------
\* The repeated JOIN_REQUEST
\* ------------------------------------------------------------------------
\* the server handles a JOIN_REQUEST of endpoint a
JoinOf(a) == SRecvJoin([Snap EXCEPT !.addrs = {a}])

\* the send windows of the players at other endpoints than a are as before
OtherWindowsUnchanged(a) ==
    /\ DOMAIN client_windows' = DOMAIN client_windows
    /\ \A p \in DOMAIN client_windows :
           (\/ p \in DOMAIN clients /\ clients[p] # a
            \/ p \in DOMAIN waiting_room_players /\ waiting_room_players[p] # a)
               => /\ client_windows'[p] = client_windows[p]
                  /\ client_next_seq'[p] = client_next_seq[p]

\* C40: a JOIN_REQUEST from an endpoint that already has a player id creates
\* no peer, assigns no id and leaves the phase of the session and the grid as
\* they are; all it sends is one JOIN_RESPONSE to that endpoint, numbered in
\* the window of the player it already is.
RepeatedJoinIdempotent ==
    [][\A a \in Snap.addrs :
           (a \in ConnectedAddrs /\ JoinOf(a)) =>
               /\ clients' = clients
               /\ waiting_room_players' = waiting_room_players
               /\ game_active' = game_active
               /\ game_start_time' = game_start_time
               /\ should_send_snapshots' = should_send_snapshots
               /\ grid_state' = grid_state
               /\ grid_claim_time' = grid_claim_time
               /\ snapshot_id' = snapshot_id
               /\ OtherWindowsUnchanged(a)
               /\ Cardinality(to_client' \ to_client) <= 1
               /\ \A d \in to_client' \ to_client :
                      d.addr = a /\ d.pkt.msg_type = MSG_TYPE_JOIN_RESP]_vars

\* a repeated JOIN_REQUEST has been answered: the window of a player holds a
\* JOIN_RESPONSE beyond packet 0, and another player is connected
RepeatedJoinAnswered ==
    /\ Cardinality(ConnectedAddrs) = 2
    /\ \E p \in DOMAIN client_windows : \E s \in DOMAIN client_windows[p] :
           s > 0 /\ client_windows[p][s].msg_type = MSG_TYPE_JOIN_RESP

====
